---- MODULE Spec2Model ----
(***************************************************************************)
(* State-machine model of the coaching-observation backend                 *)
(* (src/backend/server.py): the document-store collections users,          *)
(* user_sessions, invites, coaches, organizations and password_resets,     *)
(* and one action per route handler.  Each handler is one atomic step      *)
(* (requests are served one after the other).                              *)
(*                                                                         *)
(* Identifiers made with uuid4 / secrets.token_urlsafe are modelled by      *)
(* counters: every new identifier is fresh.  Identifier 0 stands for        *)
(* None.  Text (e-mail addresses, passwords) is a sequence of one-character *)
(* strings, so that lower-casing, regular-expression matching and password  *)
(* validation are computed on the characters.  Time is counted in hours.    *)
(***************************************************************************)
EXTENDS Integers, Sequences, FiniteSets, TLC

(***************************************************************************)
(* Bounds of the model.                                                    *)
(***************************************************************************)
MaxUsers == 3
MaxTokens == 2
MaxInvites == 2
MaxCoaches == 1
MaxOrgs == 1
MaxResets == 2
MaxTime == 1
NumEmails == 2
NumPasswords == 2
MaxObservations == 1
MaxReflections == 2
MaxTemplates == 2
MaxRetries == 4
MaxRequests == 2

(***************************************************************************)
(* Program constants.                                                      *)
(***************************************************************************)
SESSION_TTL == 168
IMPERSONATION_TTL == 2
RESET_TTL == 1
MIN_PASSWORD_LENGTH == 8

None == 0
\* An identifier or token that was never issued ("nonexistent_user_12345").
BogusId == 99
NoExpiry == -1
NoText == << >>

ADMIN_EMAIL ==
  << "h","e","l","l","o","@","m","y","c","o","a","c","h","d","e","v","e","l",
     "o","p","e","r",".","c","o","m" >>
ADMIN_PASSWORD ==
  << "_","m","c","D","e","v","e","l","o","p","e","r","2","6","!" >>
\* f"Temp_{uuid.uuid4().hex[:8]}!", for one value of the random part
TEMP_PASSWORD ==
  << "T","e","m","p","_","0","a","1","b","2","c","3","d","!" >>

LOWER_LETTERS ==
  << "a","b","c","d","e","f","g","h","i","j","k","l","m","n","o","p","q","r",
     "s","t","u","v","w","x","y","z" >>
UPPER_LETTERS ==
  << "A","B","C","D","E","F","G","H","I","J","K","L","M","N","O","P","Q","R",
     "S","T","U","V","W","X","Y","Z" >>
Letters == {LOWER_LETTERS[i] : i \in 1..26} \cup {UPPER_LETTERS[i] : i \in 1..26}
Digits == {"0","1","2","3","4","5","6","7","8","9"}

(***************************************************************************)
(* The request inputs the model draws from: e-mail addresses accepted by    *)
(* the EmailStr schema type, and passwords.                                 *)
(***************************************************************************)
EmailCatalog ==
  << << "a","x","b","@","x",".","c","o" >>,
     << "a",".","b","@","x",".","c","o" >>,
     << "A","x","b","@","x",".","c","o" >>,
     << "a","!","@","x",".","c","o" >>,
     << "a","+","b","@","x",".","c","o" >> >>
Emails == {EmailCatalog[i] : i \in 1..NumEmails} \cup {ADMIN_EMAIL}

PasswordCatalog ==
  << << "a","b","c","d","e","f","g","h" >>,
     << "a","b","c","d","e","f","1" >>,
     << "a","b","c","d","e","f","g","1" >>,
     << "1","2","3","4","5","6","7","8" >>,
     << "z","y","x","w","v","u","t","9" >> >>
Passwords == {PasswordCatalog[i] : i \in 1..NumPasswords} \cup {ADMIN_PASSWORD}

Roles == {"admin", "coach_developer", "coach"}

(***************************************************************************)
(* Text helpers.                                                           *)
(***************************************************************************)
LowerChar(c) ==
  IF \E i \in 1..26 : UPPER_LETTERS[i] = c
    THEN LOWER_LETTERS[CHOOSE i \in 1..26 : UPPER_LETTERS[i] = c]
    ELSE c

\* str.lower()
Lower(s) == [i \in 1..Len(s) |-> LowerChar(s[i])]

\* One pattern character against one text character, with $options "i".
\* An unescaped "." matches any character.
AtomMatch(pc, tc) == pc = "." \/ LowerChar(pc) = LowerChar(tc)

\* {"$regex": f"^{pattern}$", "$options": "i"}: the pattern text is put in
\* the expression unescaped, so "." is a wildcard and "+" repeats the
\* character before it.
RECURSIVE RegexMatch(_, _)
RegexMatch(p, t) ==
  IF p = << >> THEN t = << >>
  ELSE IF Len(p) >= 2 /\ p[2] = "+"
    THEN \E k \in 1..Len(t) :
            /\ \A j \in 1..k : AtomMatch(p[1], t[j])
            /\ RegexMatch(SubSeq(p, 3, Len(p)), SubSeq(t, k + 1, Len(t)))
    ELSE /\ t # << >>
         /\ AtomMatch(p[1], t[1])
         /\ RegexMatch(Tail(p), Tail(t))

LocalChars == Letters \cup Digits \cup {".", "_", "%", "+", "-"}
DomainChars == Letters \cup Digits \cup {".", "-"}

\* validate_email: ^[a-zA-Z0-9._%+-]+@[a-zA-Z0-9.-]+\.[a-zA-Z]{2,}$
validate_email(e) ==
  \E at \in 2..Len(e) :
    /\ e[at] = "@"
    /\ \A j \in 1..(at - 1) : e[j] \in LocalChars
    /\ \E dot \in (at + 2)..(Len(e) - 2) :
         /\ e[dot] = "."
         /\ \A j \in (at + 1)..(dot - 1) : e[j] \in DomainChars
         /\ \A j \in (dot + 1)..Len(e) : e[j] \in Letters

\* validate_password: at least 8 characters, a letter and a digit.
validate_password(p) ==
  /\ ~(Len(p) < MIN_PASSWORD_LENGTH)
  /\ \E i \in 1..Len(p) : p[i] \in Letters
  /\ \E i \in 1..Len(p) : p[i] \in Digits

\* bcrypt: the hash is determined by the password (the salt is kept in it)
hash_password(p) == << "bcrypt" >> \o p
verify_password(p, hashed) == hashed = hash_password(p)

(***************************************************************************)
(* State.                                                                  *)
(***************************************************************************)
VARIABLES
  started,          \* the startup hook has run and requests are served
  now,              \* datetime.now(timezone.utc), in hours
  users,            \* db.users: user_id -> document
  user_sessions,    \* db.user_sessions: session_token -> document
  invites,          \* db.invites: invite_id -> document
  coaches,          \* db.coaches: id -> document
  organizations,    \* db.organizations: org_id -> document
  password_resets,  \* db.password_resets: token -> document
  observation_sessions, \* db.observation_sessions: session_id -> document
  sessions,         \* db.sessions: session_id -> document (the coach's copy)
  reflections,      \* db.reflections: reflection_id -> document
  reflection_templates, \* db.reflection_templates: template_id -> document
  nextId,           \* the next fresh identifier of each kind
  hist,             \* history: what registrations and resets have done so far
  mail,             \* the call of send_email_with_retry in progress
  inflight,         \* the registration requests in service, each at an await
  resp              \* the last request and the response it got

vars == << started, now, users, user_sessions, invites, coaches, organizations,
           password_resets, observation_sessions, sessions, reflections,
           reflection_templates, nextId, hist, mail, inflight, resp >>

\* The collections of observations, reflections and reflection templates.
content == << observation_sessions, sessions, reflections, reflection_templates >>

db == << users, user_sessions, invites, coaches, organizations, password_resets,
         content >>

\* A function without the keys in S / with one more key.
Without(f, S) == [k \in DOMAIN f \ S |-> f[k]]
With(f, k, v) == [x \in DOMAIN f \cup {k} |-> IF x = k THEN v ELSE f[x]]

\* The last request and its response: the route (op), the HTTP status, the
\* session token the request carried (tok: the cookie, else the Bearer
\* header), the argument the request named (arg), the user and the session
\* token the body names, and the identifiers a list response contains.
NoResp == [op |-> "none", status |-> None, tok |-> None, arg |-> None,
           user |-> None, token |-> None, items |-> {}]

Reply(op, status, tok, arg, user, token) ==
  [op |-> op, status |-> status, tok |-> tok, arg |-> arg, user |-> user,
   token |-> token, items |-> {}]

ReplyList(op, status, tok, arg, items) ==
  [op |-> op, status |-> status, tok |-> tok, arg |-> arg, user |-> None,
   token |-> None, items |-> items]

\* No call of send_email_with_retry is in progress.  A call is at "send"
\* (about to call resend.Emails.send) or at "sleep" (in asyncio.sleep) until
\* it has "returned" or "raised"; sends lists the outcome of each attempt
\* (NoError, or the error raised) and sleeps the waits, in seconds.
NoError == 0
NoMail == [pc |-> "idle", max_retries |-> 0, attempt |-> 0, last_error |-> NoError,
           sends |-> << >>, sleeps |-> << >>, raised |-> NoError]

\* A registration request in service: the route (op), the await it has
\* reached (pc), what the request carries (arg: the invite_id; email,
\* password) and the handler's local variables: the invite it found and the
\* role, coach_id and invited_by read from it, the user_id it created or
\* found, and the HTTP status once it is done.
RequestIds == 1..MaxRequests
NoRequest ==
  [op |-> "none", pc |-> "idle", arg |-> None, email |-> NoText,
   password |-> NoText, invite |-> None, role |-> "none", coach_id |-> None,
   invited_by |-> None, organization_id |-> None, user_id |-> None,
   status |-> None]

Init ==
  /\ started = FALSE
  /\ now = 0
  /\ users = << >>
  /\ user_sessions = << >>
  /\ invites = << >>
  /\ coaches = << >>
  /\ organizations = << >>
  /\ password_resets = << >>
  /\ observation_sessions = << >>
  /\ sessions = << >>
  /\ reflections = << >>
  /\ reflection_templates = << >>
  /\ nextId = [user |-> 1, token |-> 1, invite |-> 1, coach |-> 1, org |-> 1,
               reset |-> 1, reflection |-> 1, template |-> 1]
  /\ hist = [consumed |-> {}, reset_issued |-> << >>, reset_used |-> {},
             impersonator |-> << >>]
  /\ mail = NoMail
  /\ inflight = [r \in RequestIds |-> NoRequest]
  /\ resp = NoResp

\* Requests are served one at a time: a handler starts when the server is up
\* and the response to the request before it has been sent.
Ready == started /\ resp = NoResp

\* The response leaves the server.
send_response ==
  /\ resp # NoResp
  /\ resp' = NoResp
  /\ UNCHANGED << content, mail, inflight, started, now, users, user_sessions, invites, coaches,
                  organizations, password_resets, nextId, hist >>

(***************************************************************************)
(* Authentication helpers.                                                 *)
(***************************************************************************)
NoUser == [kind |-> "none", id |-> None]
Crash == [kind |-> "error", id |-> None]

\* The token get_current_user looks up: the cookie, else the Bearer header.
SessionToken(cookie, bearer) == IF cookie # None THEN cookie ELSE bearer

\* get_current_user.  A session document stored without expires_at makes
\* expires_at.tzinfo raise AttributeError (an unhandled exception).
get_current_user(tok) ==
  IF tok = None THEN NoUser
  ELSE IF tok \notin DOMAIN user_sessions THEN NoUser
  ELSE LET session_doc == user_sessions[tok] IN
    IF session_doc.expires_at = NoExpiry THEN Crash
    ELSE IF session_doc.expires_at < now THEN NoUser
    ELSE IF session_doc.user_id \notin DOMAIN users THEN NoUser
    ELSE [kind |-> "user", id |-> session_doc.user_id]

\* require_auth: the status it ends the request with, 200 when it admits.
require_auth(tok) ==
  LET user == get_current_user(tok) IN
  IF user.kind = "error" THEN 500
  ELSE IF user.kind = "none" THEN 401
  ELSE 200

require_coach_developer(tok) ==
  IF require_auth(tok) # 200 THEN require_auth(tok)
  ELSE LET role == users[get_current_user(tok).id].role IN
       IF role # "coach_developer" /\ role # "admin" THEN 403 ELSE 200

require_admin(tok) ==
  IF require_auth(tok) # 200 THEN require_auth(tok)
  ELSE IF users[get_current_user(tok).id].role # "admin" THEN 403 ELSE 200

\* db.sessions_auth, the collection dependencies.get_current_user reads.  No
\* route of the repository inserts into it (login, in server.py and in
\* routes/auth.py, inserts into db.user_sessions), so it holds no document.
sessions_auth == << >>

\* dependencies.get_current_user: it reads the cookie only, looks the token up
\* in db.sessions_auth, accepts a session without expires_at, and returns
\* the user named by impersonating_user_id when there is one.
dependencies_get_current_user(cookie) ==
  IF cookie = None THEN NoUser
  ELSE IF cookie \notin DOMAIN sessions_auth THEN NoUser
  ELSE LET session == sessions_auth[cookie] IN
    IF session.expires_at # NoExpiry /\ now > session.expires_at THEN NoUser
    ELSE IF session.impersonating_user_id # None
            /\ session.impersonating_user_id \in DOMAIN users
      THEN [kind |-> "user", id |-> session.impersonating_user_id]
    ELSE IF session.user_id \notin DOMAIN users THEN NoUser
    ELSE [kind |-> "user", id |-> session.user_id]

\* dependencies.require_auth: the status it ends the request with.
dependencies_require_auth(cookie) ==
  IF dependencies_get_current_user(cookie).kind = "none" THEN 401 ELSE 200

\* The credentials a request may carry: a cookie and/or a Bearer header, each
\* an issued token, a token never issued, or absent.
TokenChoices == (0..(nextId.token - 1)) \cup {BogusId}
Creds == {cb \in TokenChoices \X TokenChoices : cb[1] = None \/ cb[2] = None}

NewSession(user_id, expires_at) ==
  [user_id |-> user_id, expires_at |-> expires_at, impersonated_by |-> None,
   admin_session_token |-> None]

NewUser(email, role, password_hash, linked_coach_id, organization_id, auth_provider) ==
  [email |-> email, role |-> role, password_hash |-> password_hash,
   password |-> NoText, linked_coach_id |-> linked_coach_id,
   organization_id |-> organization_id, auth_provider |-> auth_provider]

Fresh(kind) == nextId[kind]
Take(kinds) == [k \in DOMAIN nextId |-> IF k \in kinds THEN nextId[k] + 1 ELSE nextId[k]]
Limit == [user |-> MaxUsers, token |-> MaxTokens, invite |-> MaxInvites,
          coach |-> MaxCoaches, org |-> MaxOrgs, reset |-> MaxResets,
          reflection |-> MaxReflections, template |-> MaxTemplates]
Available(kind) == nextId[kind] <= Limit[kind]

(***************************************************************************)
(* Startup and the passing of time.                                        *)
(***************************************************************************)
\* bootstrap_admin, the startup hook (it runs again at every restart).
bootstrap_admin ==
  /\ resp = NoResp
  /\ started' = TRUE
  /\ LET existing == {u \in DOMAIN users : users[u].email = ADMIN_EMAIL} IN
     IF existing # {}
       THEN /\ \E u \in existing :
                 users' = [users EXCEPT
                   ![u].role = "admin",
                   ![u].password_hash =
                      IF users[u].password_hash = NoText
                        THEN hash_password(ADMIN_PASSWORD)
                        ELSE users[u].password_hash]
            /\ nextId' = nextId
       ELSE /\ Available("user")
            /\ users' = With(users, Fresh("user"),
                 NewUser(ADMIN_EMAIL, "admin", hash_password(ADMIN_PASSWORD),
                         None, None, "none"))
            /\ nextId' = Take({"user"})
  /\ UNCHANGED << content, mail, inflight, now, user_sessions, invites, coaches,
                  organizations, password_resets, hist, resp >>

Horizon == MaxTime + SESSION_TTL

\* Time passes between two requests: by an hour, or up to the instant at
\* which a stored session or reset token expires, or just after it.
Instants ==
  (IF now < MaxTime THEN {now + 1} ELSE {})
  \cup {user_sessions[t].expires_at + d : t \in DOMAIN user_sessions, d \in {0, 1}}
  \cup {password_resets[t].expires_at + d : t \in DOMAIN password_resets, d \in {0, 1}}

Tick ==
  /\ Ready
  /\ \E t \in Instants : t > now /\ t <= Horizon /\ now' = t
  /\ UNCHANGED << content, mail, inflight, started, users, user_sessions, invites, coaches, organizations,
                  password_resets, nextId, hist, resp >>

(***************************************************************************)
(* /auth/login, /auth/me, /auth/logout                                      *)
(***************************************************************************)
login(email, password) ==
  /\ Ready
  /\ LET found == {u \in DOMAIN users : users[u].email = email} IN
     IF found = {}
       THEN /\ resp' = Reply("login", 401, None, None, None, None)
            /\ UNCHANGED << user_sessions, nextId >>
       ELSE \E u \in found :
         IF users[u].password_hash = NoText
              \/ ~verify_password(password, users[u].password_hash)
           THEN /\ resp' = Reply("login", 401, None, None, None, None)
                /\ UNCHANGED << user_sessions, nextId >>
           ELSE /\ Available("token")
                /\ user_sessions' = With(user_sessions, Fresh("token"),
                                         NewSession(u, now + SESSION_TTL))
                /\ nextId' = Take({"token"})
                /\ resp' = Reply("login", 200, None, None, u, Fresh("token"))
  /\ UNCHANGED << content, mail, inflight, started, now, users, invites, coaches, organizations,
                  password_resets, hist >>

get_current_user_info(cookie, bearer) ==
  /\ Ready
  /\ LET tok == SessionToken(cookie, bearer)
         st == require_auth(tok) IN
     resp' = Reply("me", st, SessionToken(cookie, bearer), None,
                   IF st = 200 THEN get_current_user(tok).id ELSE None, None)
  /\ UNCHANGED << content, mail, inflight, started, now, users, user_sessions, invites, coaches,
                  organizations, password_resets, nextId, hist >>

\* logout reads the cookie only.
logout(cookie, bearer) ==
  /\ Ready
  /\ user_sessions' = IF cookie # None THEN Without(user_sessions, {cookie})
                                       ELSE user_sessions
  /\ resp' = Reply("logout", 200, SessionToken(cookie, bearer), None, None, None)
  /\ UNCHANGED << content, mail, inflight, started, now, users, invites, coaches, organizations,
                  password_resets, nextId, hist >>

(***************************************************************************)
(* Registration: /auth/signup, /auth/session, /auth/register-invite,        *)
(* /invites/validate                                                        *)
(***************************************************************************)
\* db.coaches.update_one({"id": coach_id}, {"$set": {"user_id": user_id}})
LinkCoach(cs, coach_id, user_id) ==
  IF coach_id \in DOMAIN cs THEN [cs EXCEPT ![coach_id].user_id = user_id] ELSE cs

NewCoach(email, user_id, created_by, organization_id, coach_id) ==
  [email |-> email, user_id |-> user_id, created_by |-> created_by,
   organization_id |-> organization_id, coach_id |-> coach_id]

Refuse(op, status, arg) ==
  /\ resp' = Reply(op, status, None, arg, None, None)
  /\ UNCHANGED << users, user_sessions, invites, coaches, organizations,
                  password_resets, nextId, hist >>

\* The part of signup after the role is known: the user, the club of a
\* coach developer, the link from the coach profile, the session.
SignupCreate(email, password, club, user_role, linked_coach_id) ==
  LET user_id == Fresh("user")
      session_token == Fresh("token")
      makes_org == user_role = "coach_developer" /\ club IN
  /\ Available("user") /\ Available("token")
  /\ makes_org => Available("org")
  /\ users' = With(users, user_id,
       NewUser(email, user_role, hash_password(password), linked_coach_id,
               None, "email"))
  /\ organizations' =
       IF makes_org THEN With(organizations, Fresh("org"), [owner_id |-> user_id])
                    ELSE organizations
  /\ coaches' = IF user_role = "coach" /\ linked_coach_id # None
                  THEN LinkCoach(coaches, linked_coach_id, user_id)
                  ELSE coaches
  /\ user_sessions' = With(user_sessions, session_token,
                           NewSession(user_id, now + SESSION_TTL))
  /\ nextId' = Take({"user", "token"} \cup (IF makes_org THEN {"org"} ELSE {}))
  /\ resp' = Reply("signup", 200, None, email, user_id, session_token)

signup(email, password, club) ==
  /\ Ready
  /\ LET email_lower == Lower(email) IN
     IF ~validate_email(email) THEN Refuse("signup", 400, email)
     ELSE IF ~validate_password(password) THEN Refuse("signup", 400, email)
     ELSE IF \E u \in DOMAIN users : RegexMatch(email_lower, users[u].email)
       THEN Refuse("signup", 400, email)
     ELSE IF DOMAIN users = {}
       THEN /\ SignupCreate(email, password, club, "coach_developer", None)
            /\ UNCHANGED << invites, hist >>
     ELSE LET found == {i \in DOMAIN invites :
                          /\ RegexMatch(email_lower, invites[i].email)
                          /\ invites[i].used = FALSE} IN
       IF found = {} THEN Refuse("signup", 403, email)
       ELSE \E i \in found :
              /\ invites' = [invites EXCEPT ![i].used = TRUE]
              /\ hist' = [hist EXCEPT !.consumed = @ \cup {i}]
              /\ SignupCreate(email, password, club, invites[i].role,
                              invites[i].coach_id)
  /\ UNCHANGED << content, mail, inflight, started, now, password_resets >>

\* exchange_session, for the e-mail address and the session token that the
\* OAuth provider returns for the session_id (ok), or for a request without
\* session_id / a session_id the provider rejects.
exchange_session(email, outcome) ==
  /\ Ready
  /\ IF outcome = "missing" THEN Refuse("session", 400, email)
     ELSE IF outcome = "rejected" THEN Refuse("session", 401, email)
     ELSE
       LET existing == {u \in DOMAIN users : users[u].email = email}
           session_token == Fresh("token")
           found == {i \in DOMAIN invites :
                       invites[i].email = email /\ invites[i].used = FALSE}
           Finish(user_id) ==
             /\ Available("token")
             /\ user_sessions' = With(user_sessions, session_token,
                                      NewSession(user_id, now + SESSION_TTL))
             /\ resp' = Reply("session", 200, None, email, user_id,
                              session_token)
           Create(user_role, linked_coach_id, cs, kinds) ==
             /\ Available("user")
             /\ users' = With(users, Fresh("user"),
                  NewUser(email, user_role, NoText, linked_coach_id, None, "google"))
             /\ coaches' = IF user_role = "coach" /\ linked_coach_id # None
                             THEN LinkCoach(cs, linked_coach_id, Fresh("user"))
                             ELSE cs
             /\ nextId' = Take({"user", "token"} \cup kinds)
             /\ Finish(Fresh("user"))
       IN
       IF existing # {}
         THEN \E u \in existing :
                /\ Finish(u)
                /\ nextId' = Take({"token"})
                /\ UNCHANGED << users, invites, coaches, hist >>
       ELSE IF DOMAIN users = {}
         THEN /\ Create("coach_developer", None, coaches, {})
              /\ UNCHANGED << invites, hist >>
       ELSE IF found = {}
         THEN /\ resp' = Reply("session", 403, None, email, None, None)
              /\ UNCHANGED << users, user_sessions, invites, coaches, nextId,
                              hist >>
       ELSE \E i \in found :
         LET user_role == invites[i].role
             profiles == {c \in DOMAIN coaches :
                            RegexMatch(email, coaches[c].email)} IN
         /\ invites' = [invites EXCEPT ![i].used = TRUE]
         /\ hist' = [hist EXCEPT !.consumed = @ \cup {i}]
         /\ IF user_role # "coach"
              THEN Create(user_role, invites[i].coach_id, coaches, {})
            ELSE IF profiles # {}
              THEN \E c \in profiles : Create(user_role, c, coaches, {})
            ELSE /\ Available("coach")
                 /\ Create(user_role, Fresh("coach"),
                      With(coaches, Fresh("coach"),
                           NewCoach(email, None, invites[i].invited_by, None, None)),
                      {"coach"})
  /\ UNCHANGED << content, mail, inflight, started, now, organizations, password_resets >>

\* register_from_invite.  The session document it stores has no expires_at.
register_from_invite(invite_id, password) ==
  /\ Ready
  /\ IF invite_id \notin DOMAIN invites THEN Refuse("register-invite", 404, invite_id)
     ELSE IF invites[invite_id].used THEN Refuse("register-invite", 400, invite_id)
     ELSE
       LET invite == invites[invite_id]
           email == invite.email
           coach_id == invite.coach_id
           invited_by == invite.invited_by
           user_id == Fresh("user")
           session_token == Fresh("token")
           organization_id ==
             IF invited_by \in DOMAIN users
               THEN users[invited_by].organization_id ELSE None
       IN
       IF \E u \in DOMAIN users : RegexMatch(email, users[u].email)
         THEN Refuse("register-invite", 400, invite_id)
       ELSE IF Len(password) < MIN_PASSWORD_LENGTH
         THEN Refuse("register-invite", 400, invite_id)
       ELSE
         /\ Available("user") /\ Available("token")
         /\ users' = With(users, user_id,
              NewUser(email, invite.role, hash_password(password), coach_id,
                      organization_id, "none"))
         /\ coaches' = IF coach_id # None THEN LinkCoach(coaches, coach_id, user_id)
                                          ELSE coaches
         /\ invites' = [invites EXCEPT ![invite_id].used = TRUE]
         /\ hist' = [hist EXCEPT !.consumed = @ \cup {invite_id}]
         /\ user_sessions' = With(user_sessions, session_token,
                                  NewSession(user_id, NoExpiry))
         /\ nextId' = Take({"user", "token"})
         /\ resp' = Reply("register-invite", 200, None, invite_id, user_id,
                          session_token)
         /\ UNCHANGED << organizations, password_resets >>
  /\ UNCHANGED << content, mail, inflight, started, now >>

\* validate_invite without the test of the used flag.
validate_invite_ignoring_used(invite_id) ==
  /\ Ready
  /\ resp' = Reply("validate-invite", 200, None, invite_id,
                   IF invite_id \in DOMAIN invites THEN 1 ELSE 0, None)
  /\ UNCHANGED << content, mail, inflight, started, now, users, user_sessions, invites, coaches,
                  organizations, password_resets, nextId, hist >>

\* validate_invite: status 200 always; the field valid is reported in user
\* as 1 (valid) or 0.
validate_invite(invite_id) ==
  /\ Ready
  /\ resp' = Reply("validate-invite", 200, None, invite_id,
                   IF invite_id \in DOMAIN invites /\ ~invites[invite_id].used
                     THEN 1 ELSE 0,
                   None)
  /\ UNCHANGED << content, mail, inflight, started, now, users, user_sessions, invites, coaches,
                  organizations, password_resets, nextId, hist >>

\* Identifiers a request may name: one issued so far, or one never issued.
InviteChoices == (1..(nextId.invite - 1)) \cup {BogusId}

(***************************************************************************)
(* Passwords: /auth/forgot-password, /auth/reset-password,                  *)
(* /auth/verify-reset-token, /auth/change-password                          *)
(***************************************************************************)
ResetChoices == (1..(nextId.reset - 1)) \cup {BogusId}

\* The expiry test with an hour of grace.
ExpiredWithGrace(expires_at) == expires_at + 1 < now

\* expires_at < datetime.now(timezone.utc)
Expired(expires_at) == expires_at < now

forgot_password(email) ==
  /\ Ready
  /\ LET found == {u \in DOMAIN users : users[u].email = email} IN
     IF found = {}
       THEN UNCHANGED << password_resets, nextId, hist >>
       ELSE \E u \in found :
         IF users[u].auth_provider = "google" /\ users[u].password_hash = NoText
           THEN UNCHANGED << password_resets, nextId, hist >>
           ELSE
             /\ Available("reset")
             /\ password_resets' =
                  With(Without(password_resets,
                               {t \in DOMAIN password_resets :
                                  password_resets[t].email = email}),
                       Fresh("reset"),
                       [email |-> email, expires_at |-> now + RESET_TTL])
             /\ nextId' = Take({"reset"})
             /\ hist' = [hist EXCEPT !.reset_issued = With(@, Fresh("reset"), now)]
  /\ resp' = Reply("forgot-password", 200, None, email, None, None)
  /\ UNCHANGED << content, mail, inflight, started, now, users, user_sessions, invites, coaches,
                  organizations >>

\* The user whose password reset_password sets: update_one on the e-mail
\* address of the reset document.
ResetTargets(token) ==
  {u \in DOMAIN users : users[u].email = password_resets[token].email}

\* A delete_many that matches no session.
SessionsOfNoUser(user_id) == {}

\* db.user_sessions.delete_many({"user_id": user_doc["user_id"]}): the
\* sessions it deletes.
SessionsOfUser(user_id) ==
  {t \in DOMAIN user_sessions : user_sessions[t].user_id = user_id}

reset_password(token, new_password) ==
  /\ Ready
  /\ IF token \notin DOMAIN password_resets
       THEN Refuse("reset-password", 400, token)
     ELSE IF Expired(password_resets[token].expires_at)
       THEN /\ password_resets' = Without(password_resets, {token})
            /\ resp' = Reply("reset-password", 400, None, token, None, None)
            /\ UNCHANGED << users, user_sessions, invites, coaches, organizations,
                            nextId, hist >>
     ELSE IF ~validate_password(new_password)
       THEN Refuse("reset-password", 400, token)
     ELSE IF ResetTargets(token) = {}
       THEN Refuse("reset-password", 400, token)
     ELSE \E u \in ResetTargets(token) :
       /\ users' = [users EXCEPT ![u].password_hash = hash_password(new_password),
                                 ![u].auth_provider = "email"]
       /\ password_resets' = Without(password_resets, {token})
       /\ user_sessions' = Without(user_sessions, SessionsOfUser(u))
       /\ resp' = Reply("reset-password", 200, None, token, u, None)
       /\ hist' = [hist EXCEPT !.reset_used = @ \cup {token}]
       /\ UNCHANGED << invites, coaches, organizations, nextId >>
  /\ UNCHANGED << content, mail, inflight, started, now >>

\* verify_reset_token: status 200 always; valid is reported in user as 1 or 0.
verify_reset_token(token) ==
  /\ Ready
  /\ resp' = Reply("verify-reset-token", 200, None, token,
                   IF /\ token \in DOMAIN password_resets
                      /\ ~Expired(password_resets[token].expires_at)
                     THEN 1 ELSE 0,
                   None)
  /\ UNCHANGED << content, mail, inflight, started, now, users, user_sessions, invites, coaches,
                  organizations, password_resets, nextId, hist >>

change_password(cookie, bearer, current_password, new_password) ==
  /\ Ready
  /\ LET tok == SessionToken(cookie, bearer)
         st == require_auth(tok)
         u == get_current_user(tok).id
         Answer(status) == resp' = Reply("change-password", status, SessionToken(cookie, bearer), None, IF st = 200 THEN u ELSE None, None)
     IN
     IF st # 200 THEN Answer(st) /\ UNCHANGED users
     ELSE IF users[u].password_hash = NoText THEN Answer(400) /\ UNCHANGED users
     ELSE IF ~verify_password(current_password, users[u].password_hash)
       THEN Answer(401) /\ UNCHANGED users
     ELSE IF ~validate_password(new_password) THEN Answer(400) /\ UNCHANGED users
     ELSE /\ users' = [users EXCEPT ![u].password_hash = hash_password(new_password)]
          /\ Answer(200)
  /\ UNCHANGED << content, mail, inflight, started, now, user_sessions, invites, coaches, organizations,
                  password_resets, nextId, hist >>

(***************************************************************************)
(* Invites: POST /invites, DELETE /invites/{id}, DELETE /invites/by-email   *)
(***************************************************************************)
\* A guarded route that ends with an error status and writes nothing.
Deny(op, status, tok) ==
  /\ resp' = Reply(op, status, tok, None, None, None)
  /\ UNCHANGED << users, user_sessions, invites, coaches, organizations,
                  password_resets, nextId, hist >>

InviteRoles == {"coach_developer", "coach"}
CoachChoices == (0..(nextId.coach - 1)) \cup {BogusId}
UserChoices == (1..(nextId.user - 1)) \cup {BogusId}
OrgChoices == (1..(nextId.org - 1)) \cup {BogusId}

NewInvite(email, role, coach_id, invited_by) ==
  [email |-> email, role |-> role, coach_id |-> coach_id,
   invited_by |-> invited_by, used |-> FALSE]

\* An unused invite whose address the (unescaped) pattern matches.
PendingInvites(pattern) ==
  {i \in DOMAIN invites : RegexMatch(pattern, invites[i].email) /\ invites[i].used = FALSE}

create_invite(cookie, bearer, email, role, coach_id) ==
  /\ Ready
  /\ LET tok == SessionToken(cookie, bearer)
         st == require_coach_developer(tok)
         email_lower == Lower(email) IN
     IF st # 200 THEN Deny("create-invite", st, SessionToken(cookie, bearer))
     ELSE IF PendingInvites(email_lower) # {}
       THEN Deny("create-invite", 400, SessionToken(cookie, bearer))
     ELSE IF \E u \in DOMAIN users : RegexMatch(email_lower, users[u].email)
       THEN Deny("create-invite", 400, SessionToken(cookie, bearer))
     ELSE /\ Available("invite")
          /\ invites' = With(invites, Fresh("invite"),
               NewInvite(email_lower, role, coach_id, get_current_user(tok).id))
          /\ nextId' = Take({"invite"})
          /\ resp' = Reply("create-invite", 200, SessionToken(cookie, bearer), email,
                           None, None)
          /\ UNCHANGED << users, user_sessions, coaches, organizations,
                          password_resets, hist >>
  /\ UNCHANGED << content, mail, inflight, started, now >>

delete_invite(cookie, bearer, invite_id) ==
  /\ Ready
  /\ LET st == require_coach_developer(SessionToken(cookie, bearer)) IN
     IF st # 200 THEN Deny("delete-invite", st, SessionToken(cookie, bearer))
     ELSE IF invite_id \notin DOMAIN invites
       THEN Deny("delete-invite", 404, SessionToken(cookie, bearer))
     ELSE /\ invites' = Without(invites, {invite_id})
          /\ resp' = Reply("delete-invite", 200, SessionToken(cookie, bearer), invite_id,
                           None, None)
          /\ UNCHANGED << users, user_sessions, coaches, organizations,
                          password_resets, nextId, hist >>
  /\ UNCHANGED << content, mail, inflight, started, now >>

delete_invite_by_email(cookie, bearer, email) ==
  /\ Ready
  /\ LET st == require_coach_developer(SessionToken(cookie, bearer))
         hit == {i \in DOMAIN invites : RegexMatch(Lower(email), invites[i].email)} IN
     IF st # 200 THEN Deny("delete-invite-by-email", st, SessionToken(cookie, bearer))
     ELSE IF hit = {} THEN Deny("delete-invite-by-email", 404, SessionToken(cookie, bearer))
     ELSE /\ invites' = Without(invites, hit)
          /\ resp' = Reply("delete-invite-by-email", 200, SessionToken(cookie, bearer), email,
                           None, None)
          /\ UNCHANGED << users, user_sessions, coaches, organizations,
                          password_resets, nextId, hist >>
  /\ UNCHANGED << content, mail, inflight, started, now >>

(***************************************************************************)
(* Users: GET /users, PUT /users/{id}/role, PUT /users/{id}/link-coach,     *)
(* DELETE /users/{id}                                                       *)
(***************************************************************************)
list_users(cookie, bearer) ==
  /\ Ready
  /\ LET st == require_coach_developer(SessionToken(cookie, bearer)) IN
     resp' = ReplyList("list-users", st, SessionToken(cookie, bearer), None,
                       IF st = 200 THEN DOMAIN users ELSE {})
  /\ UNCHANGED << content, mail, inflight, started, now, users, user_sessions, invites, coaches,
                  organizations, password_resets, nextId, hist >>

update_user_role(cookie, bearer, user_id, new_role) ==
  /\ Ready
  /\ LET tok == SessionToken(cookie, bearer)
         st == require_coach_developer(tok) IN
     IF st # 200 THEN Deny("update-role", st, SessionToken(cookie, bearer))
     ELSE IF user_id = get_current_user(tok).id
       THEN Deny("update-role", 400, SessionToken(cookie, bearer))
     ELSE IF new_role \notin {"coach_developer", "coach"}
       THEN Deny("update-role", 400, SessionToken(cookie, bearer))
     ELSE IF user_id \notin DOMAIN users
       THEN Deny("update-role", 404, SessionToken(cookie, bearer))
     ELSE /\ users' = [users EXCEPT ![user_id].role = new_role]
          /\ resp' = Reply("update-role", 200, SessionToken(cookie, bearer), user_id, None, None)
          /\ UNCHANGED << user_sessions, invites, coaches, organizations,
                          password_resets, nextId, hist >>
  /\ UNCHANGED << content, mail, inflight, started, now >>

link_user_to_coach(cookie, bearer, user_id, coach_id) ==
  /\ Ready
  /\ LET st == require_coach_developer(SessionToken(cookie, bearer)) IN
     IF st # 200 THEN Deny("link-coach", st, SessionToken(cookie, bearer))
     ELSE IF user_id \notin DOMAIN users
       THEN Deny("link-coach", 404, SessionToken(cookie, bearer))
     ELSE /\ users' = [users EXCEPT ![user_id].linked_coach_id = coach_id]
          /\ resp' = Reply("link-coach", 200, SessionToken(cookie, bearer), user_id, None, None)
          /\ UNCHANGED << user_sessions, invites, coaches, organizations,
                          password_resets, nextId, hist >>
  /\ UNCHANGED << content, mail, inflight, started, now >>

delete_user(cookie, bearer, user_id) ==
  /\ Ready
  /\ LET tok == SessionToken(cookie, bearer)
         st == require_coach_developer(tok) IN
     IF st # 200 THEN Deny("delete-user", st, SessionToken(cookie, bearer))
     ELSE IF user_id = get_current_user(tok).id
       THEN Deny("delete-user", 400, SessionToken(cookie, bearer))
     ELSE IF user_id \notin DOMAIN users
       THEN Deny("delete-user", 404, SessionToken(cookie, bearer))
     ELSE
       LET target_user == users[user_id]
           user_email == Lower(target_user.email) IN
       /\ user_sessions' = Without(user_sessions,
            {t \in DOMAIN user_sessions : user_sessions[t].user_id = user_id})
       /\ password_resets' = Without(password_resets,
            {t \in DOMAIN password_resets :
               password_resets[t].email = target_user.email})
       /\ coaches' = IF target_user.linked_coach_id # None
                       THEN Without(coaches, {target_user.linked_coach_id})
                       ELSE coaches
       /\ invites' = Without(invites, PendingInvites(user_email))
       /\ users' = Without(users, {user_id})
       /\ resp' = Reply("delete-user", 200, SessionToken(cookie, bearer), user_id, None, None)
       /\ UNCHANGED << organizations, nextId, hist >>
  /\ UNCHANGED << content, mail, inflight, started, now >>

(***************************************************************************)
(* Coaches: GET /coaches, POST /coaches, GET /coaches/{id},                 *)
(* DELETE /coaches/{id}                                                     *)
(***************************************************************************)
\* list_all_coaches first gives a profile to every user with role coach that
\* has none (or whose profile is missing), then lists every profile.
list_all_coaches(cookie, bearer) ==
  /\ Ready
  /\ LET st == require_coach_developer(SessionToken(cookie, bearer))
         coach_users == {u \in DOMAIN users : users[u].role = "coach"}
         unlinked == {u \in coach_users : users[u].linked_coach_id = None}
         missing == {u \in coach_users \ unlinked :
                       users[u].linked_coach_id \notin DOMAIN coaches}
         NewId(u) == nextId.coach + Cardinality({v \in unlinked : v < u})
         created == [c \in {NewId(u) : u \in unlinked}
                            \cup {users[u].linked_coach_id : u \in missing} |->
                       LET u == CHOOSE v \in unlinked \cup missing :
                                  IF v \in unlinked THEN NewId(v) = c
                                  ELSE users[v].linked_coach_id = c
                       IN NewCoach(users[u].email, u, None, None, None)]
         synced == [c \in DOMAIN coaches \cup DOMAIN created |->
                      IF c \in DOMAIN created THEN created[c] ELSE coaches[c]]
     IN
     IF st # 200 THEN Deny("list-coaches", st, SessionToken(cookie, bearer))
     ELSE /\ nextId.coach + Cardinality(unlinked) - 1 <= MaxCoaches
          /\ coaches' = synced
          /\ users' = [u \in DOMAIN users |->
                         IF u \in unlinked
                           THEN [users[u] EXCEPT !.linked_coach_id = NewId(u)]
                           ELSE users[u]]
          /\ nextId' = [nextId EXCEPT !.coach = @ + Cardinality(unlinked)]
          /\ resp' = ReplyList("list-coaches", 200, SessionToken(cookie, bearer), None,
                               DOMAIN synced)
          /\ UNCHANGED << user_sessions, invites, organizations, password_resets,
                          hist >>
  /\ UNCHANGED << content, mail, inflight, started, now >>

\* create_coach_manually, for a request with or without a name, and an
\* e-mail address (NoText: none given).
create_coach_manually(cookie, bearer, has_name, raw_email) ==
  /\ Ready
  /\ LET tok == SessionToken(cookie, bearer)
         st == require_coach_developer(tok)
         email == Lower(raw_email)
         coach_id == Fresh("coach")
         me == get_current_user(tok).id
         existing_user == {u \in DOMAIN users : RegexMatch(email, users[u].email)}
     IN
     IF st # 200 THEN Deny("create-coach", st, SessionToken(cookie, bearer))
     ELSE IF ~has_name THEN Deny("create-coach", 400, SessionToken(cookie, bearer))
     ELSE IF email = NoText THEN Deny("create-coach", 400, SessionToken(cookie, bearer))
     ELSE IF ~validate_email(email)
       THEN Deny("create-coach", 400, SessionToken(cookie, bearer))
     ELSE IF \E c \in DOMAIN coaches : RegexMatch(email, coaches[c].email)
       THEN Deny("create-coach", 400, SessionToken(cookie, bearer))
     ELSE IF existing_user # {}
       THEN \E u \in existing_user :
              /\ Available("coach")
              /\ coaches' = With(coaches, coach_id, NewCoach(email, u, me, None, None))
              /\ users' = [users EXCEPT ![u].linked_coach_id = coach_id,
                                        ![u].role = "coach"]
              /\ nextId' = Take({"coach"})
              /\ resp' = Reply("create-coach", 200, SessionToken(cookie, bearer), raw_email,
                               None, None)
              /\ UNCHANGED << user_sessions, invites, organizations,
                              password_resets, hist >>
     ELSE /\ Available("coach")
          /\ coaches' = With(coaches, coach_id, NewCoach(email, None, me, None, None))
          /\ IF PendingInvites(email) = {}
               THEN /\ Available("invite")
                    /\ invites' = With(invites, Fresh("invite"),
                                       NewInvite(email, "coach", coach_id, me))
                    /\ nextId' = Take({"coach", "invite"})
               ELSE /\ invites' = invites
                    /\ nextId' = Take({"coach"})
          /\ resp' = Reply("create-coach", 200, SessionToken(cookie, bearer), raw_email, None, None)
          /\ UNCHANGED << users, user_sessions, organizations, password_resets,
                          hist >>
  /\ UNCHANGED << content, mail, inflight, started, now >>

\* get_coach_detail calls get_current_user, not require_auth: without a
\* user, user.role raises AttributeError.
get_coach_detail(cookie, bearer, coach_id) ==
  /\ Ready
  /\ LET user == get_current_user(SessionToken(cookie, bearer))
         st == IF user.kind = "error" THEN 500
               ELSE IF coach_id \notin DOMAIN coaches THEN 404
               ELSE IF user.kind = "none" THEN 500
               ELSE IF users[user.id].role \in {"coach_developer", "admin"}
                       \/ users[user.id].linked_coach_id = coach_id THEN 200
               ELSE 403
     IN resp' = ReplyList("get-coach", st, SessionToken(cookie, bearer), coach_id,
                          IF st = 200 THEN {coach_id} ELSE {})
  /\ UNCHANGED << content, mail, inflight, started, now, users, user_sessions, invites, coaches,
                  organizations, password_resets, nextId, hist >>

delete_coach(cookie, bearer, coach_id, also_user) ==
  /\ Ready
  /\ LET st == require_coach_developer(SessionToken(cookie, bearer)) IN
     IF st # 200 THEN Deny("delete-coach", st, SessionToken(cookie, bearer))
     ELSE IF coach_id \notin DOMAIN coaches
       THEN Deny("delete-coach", 404, SessionToken(cookie, bearer))
     ELSE
       LET coach == coaches[coach_id]
           coach_user_id == coach.user_id
           coach_email == Lower(coach.email) IN
       /\ users' =
            IF coach_user_id = None \/ coach_user_id \notin DOMAIN users THEN users
            ELSE IF also_user THEN Without(users, {coach_user_id})
            ELSE [users EXCEPT ![coach_user_id].linked_coach_id = None,
                               ![coach_user_id].role = "coach_developer"]
       /\ invites' = Without(invites,
            {i \in DOMAIN invites :
               \/ invites[i].coach_id = coach_id
               \/ /\ coach_email # NoText
                  /\ RegexMatch(coach_email, invites[i].email)
                  /\ invites[i].used # TRUE})
       /\ coaches' = Without(coaches, {coach_id})
       /\ resp' = Reply("delete-coach", 200, SessionToken(cookie, bearer), coach_id, None, None)
       /\ UNCHANGED << user_sessions, organizations, password_resets, nextId,
                       hist >>
  /\ UNCHANGED << content, mail, inflight, started, now >>

(***************************************************************************)
(* Organization and admin routes.                                           *)
(***************************************************************************)
OwnedOrgs(user_id) ==
  {o \in DOMAIN organizations : organizations[o].owner_id = user_id}

\* update_organization: finds the caller's organization or creates it.
update_organization(cookie, bearer) ==
  /\ Ready
  /\ LET tok == SessionToken(cookie, bearer)
         st == require_coach_developer(tok)
         me == get_current_user(tok).id IN
     IF st # 200 THEN Deny("update-organization", st, SessionToken(cookie, bearer))
     ELSE /\ IF OwnedOrgs(me) = {}
               THEN /\ Available("org")
                    /\ organizations' = With(organizations, Fresh("org"),
                                             [owner_id |-> me])
                    /\ nextId' = Take({"org"})
               ELSE UNCHANGED << organizations, nextId >>
          /\ resp' = Reply("update-organization", 200, SessionToken(cookie, bearer), None,
                           me, None)
          /\ UNCHANGED << users, user_sessions, invites, coaches, password_resets,
                          hist >>
  /\ UNCHANGED << content, mail, inflight, started, now >>

admin_create_organization(cookie, bearer) ==
  /\ Ready
  /\ LET st == require_admin(SessionToken(cookie, bearer)) IN
     IF st # 200 THEN Deny("admin-create-organization", st, SessionToken(cookie, bearer))
     ELSE /\ Available("org")
          /\ organizations' = With(organizations, Fresh("org"), [owner_id |-> None])
          /\ nextId' = Take({"org"})
          /\ resp' = Reply("admin-create-organization", 200, SessionToken(cookie, bearer), Fresh("org"), None, None)
          /\ UNCHANGED << users, user_sessions, invites, coaches, password_resets,
                          hist >>
  /\ UNCHANGED << content, mail, inflight, started, now >>

\* admin_create_user stores the hash under the key "password".
admin_create_user(cookie, bearer, email, role, organization_id) ==
  /\ Ready
  /\ LET st == require_admin(SessionToken(cookie, bearer))
         user_id == Fresh("user")
         coach_id == Fresh("coach") IN
     IF st # 200 THEN Deny("admin-create-user", st, SessionToken(cookie, bearer))
     ELSE IF role \notin {"coach_developer", "coach"}
       THEN Deny("admin-create-user", 400, SessionToken(cookie, bearer))
     ELSE IF \E u \in DOMAIN users : users[u].email = Lower(email)
       THEN Deny("admin-create-user", 400, SessionToken(cookie, bearer))
     ELSE IF organization_id \notin DOMAIN organizations
       THEN Deny("admin-create-user", 404, SessionToken(cookie, bearer))
     ELSE
       LET org == organizations[organization_id] IN
       /\ Available("user")
       /\ role = "coach" => Available("coach")
       /\ organizations' =
            IF role = "coach_developer" /\ org.owner_id = None
              THEN [organizations EXCEPT ![organization_id].owner_id = user_id]
              ELSE organizations
       /\ coaches' =
            IF role = "coach"
              THEN With(coaches, coach_id,
                        NewCoach(Lower(email), None, org.owner_id, organization_id,
                                 coach_id))
              ELSE coaches
       /\ users' = With(users, user_id,
            [NewUser(Lower(email), role, NoText,
                     IF role = "coach" THEN coach_id ELSE None,
                     organization_id, "none")
               EXCEPT !.password = hash_password(TEMP_PASSWORD)])
       /\ nextId' = Take({"user"} \cup (IF role = "coach" THEN {"coach"} ELSE {}))
       /\ resp' = Reply("admin-create-user", 200, SessionToken(cookie, bearer), email, user_id,
                        None)
       /\ UNCHANGED << user_sessions, invites, password_resets, hist >>
  /\ UNCHANGED << content, mail, inflight, started, now >>

admin_reset_user_password(cookie, bearer, user_id, new_password) ==
  /\ Ready
  /\ LET st == require_admin(SessionToken(cookie, bearer)) IN
     IF st # 200 THEN Deny("admin-reset-password", st, SessionToken(cookie, bearer))
     ELSE IF user_id \notin DOMAIN users
       THEN Deny("admin-reset-password", 404, SessionToken(cookie, bearer))
     ELSE IF users[user_id].role = "admin"
       THEN Deny("admin-reset-password", 403, SessionToken(cookie, bearer))
     ELSE /\ users' = [users EXCEPT ![user_id].password = hash_password(new_password)]
          /\ resp' = Reply("admin-reset-password", 200, SessionToken(cookie, bearer), user_id,
                           user_id, None)
          /\ UNCHANGED << user_sessions, invites, coaches, organizations,
                          password_resets, nextId, hist >>
  /\ UNCHANGED << content, mail, inflight, started, now >>

\* admin_impersonate_user keeps the admin's cookie (not the Bearer token) in
\* the impersonation session.
admin_impersonate_user(cookie, bearer, user_id) ==
  /\ Ready
  /\ LET tok == SessionToken(cookie, bearer)
         st == require_admin(tok)
         impersonate_token == Fresh("token")
         Answer(status) ==
           /\ resp' = Reply("impersonate", status, tok, user_id, None, None)
           /\ UNCHANGED << user_sessions, nextId, hist >>
     IN
     IF st # 200 THEN Answer(st)
     ELSE IF user_id \notin DOMAIN users THEN Answer(404)
     ELSE IF users[user_id].role = "admin" THEN Answer(403)
     ELSE /\ Available("token")
          /\ user_sessions' = With(user_sessions, impersonate_token,
               [user_id |-> user_id, expires_at |-> now + IMPERSONATION_TTL,
                impersonated_by |-> get_current_user(tok).id,
                admin_session_token |-> cookie])
          /\ nextId' = Take({"token"})
          /\ hist' = [hist EXCEPT !.impersonator = With(@, impersonate_token, tok)]
          /\ resp' = Reply("impersonate", 200, tok, user_id, user_id,
                           impersonate_token)
  /\ UNCHANGED << content, mail, inflight, started, now, users, invites, coaches, organizations,
                  password_resets >>

\* admin_exit_impersonation reads the cookie only; the token it hands back
\* (set as the cookie) is reported in token.
admin_exit_impersonation(cookie, bearer) ==
  /\ Ready
  /\ LET Answer(status, token) ==
           resp' = Reply("exit-impersonation", status, SessionToken(cookie, bearer), None,
                         None, token) IN
     IF cookie = None THEN Answer(401, None) /\ UNCHANGED user_sessions
     ELSE IF cookie \notin DOMAIN user_sessions
       THEN Answer(401, None) /\ UNCHANGED user_sessions
     ELSE LET admin_session_token == user_sessions[cookie].admin_session_token IN
       IF admin_session_token = None
         THEN Answer(400, None) /\ UNCHANGED user_sessions
       ELSE IF admin_session_token \notin DOMAIN user_sessions
         THEN Answer(401, None) /\ UNCHANGED user_sessions
       ELSE IF user_sessions[admin_session_token].expires_at = NoExpiry
         THEN Answer(500, None) /\ UNCHANGED user_sessions
       ELSE IF Expired(user_sessions[admin_session_token].expires_at)
         THEN Answer(401, None) /\ UNCHANGED user_sessions
       ELSE /\ user_sessions' = Without(user_sessions, {cookie})
            /\ Answer(200, admin_session_token)
  /\ UNCHANGED << content, mail, inflight, started, now, users, invites, coaches, organizations,
                  password_resets, nextId, hist >>

\* admin_delete_user deletes the coach profile by its key "coach_id".
admin_delete_user(cookie, bearer, user_id) ==
  /\ Ready
  /\ LET st == require_admin(SessionToken(cookie, bearer)) IN
     IF st # 200 THEN Deny("admin-delete-user", st, SessionToken(cookie, bearer))
     ELSE IF user_id \notin DOMAIN users
       THEN Deny("admin-delete-user", 404, SessionToken(cookie, bearer))
     ELSE IF users[user_id].role = "admin"
       THEN Deny("admin-delete-user", 403, SessionToken(cookie, bearer))
     ELSE
       LET linked == users[user_id].linked_coach_id
           hit == {c \in DOMAIN coaches : coaches[c].coach_id = linked} IN
       /\ users' = Without(users, {user_id})
       /\ IF linked # None /\ hit # {}
            THEN \E c \in hit : coaches' = Without(coaches, {c})
            ELSE coaches' = coaches
       /\ resp' = Reply("admin-delete-user", 200, SessionToken(cookie, bearer), user_id,
                        None, None)
       /\ UNCHANGED << user_sessions, invites, organizations, password_resets,
                       nextId, hist >>
  /\ UNCHANGED << content, mail, inflight, started, now >>

admin_delete_organization(cookie, bearer, org_id) ==
  /\ Ready
  /\ LET st == require_admin(SessionToken(cookie, bearer)) IN
     IF st # 200 THEN Deny("admin-delete-organization", st, SessionToken(cookie, bearer))
     ELSE IF org_id \notin DOMAIN organizations
       THEN Deny("admin-delete-organization", 404, SessionToken(cookie, bearer))
     ELSE
       LET owner_id == organizations[org_id].owner_id IN
       /\ users' = Without(users,
            {u \in DOMAIN users :
               /\ users[u].organization_id = org_id \/ u = owner_id
               /\ users[u].role # "admin"})
       /\ coaches' = Without(coaches,
            {c \in DOMAIN coaches : coaches[c].created_by = owner_id})
       /\ organizations' = Without(organizations, {org_id})
       /\ resp' = Reply("admin-delete-organization", 200, SessionToken(cookie, bearer), org_id,
                        None, None)
       /\ UNCHANGED << user_sessions, invites, password_resets, nextId, hist >>
  /\ UNCHANGED << content, mail, inflight, started, now >>

(***************************************************************************)
(* Observation sessions: /observations.  The session_id is chosen by the    *)
(* client.                                                                  *)
(***************************************************************************)
ObservationChoices == 1..MaxObservations
ObservationStatuses == {"draft", "completed"}

\* find({"session_id": session_id}) without the observer_id of the caller.
FindObservationOfAnyone(session_id, observer_id) ==
  {s \in DOMAIN observation_sessions : s = session_id}

\* find({"session_id": session_id, "observer_id": user.user_id})
FindObservation(session_id, observer_id) ==
  {s \in DOMAIN observation_sessions :
     s = session_id /\ observation_sessions[s].observer_id = observer_id}

\* find({"observer_id": user.user_id})
ObservationsOf(observer_id) ==
  {s \in DOMAIN observation_sessions :
     observation_sessions[s].observer_id = observer_id}

\* "Also save to the sessions collection for coach access": an upsert, done
\* when the observation names a coach and is completed.
SaveCoachSession(session_id, coach_id, status, observer_id) ==
  IF coach_id # None /\ status = "completed"
    THEN With(sessions, session_id,
              [coach_id |-> coach_id, observer_id |-> observer_id])
    ELSE sessions

list_observation_sessions(cookie, bearer) ==
  /\ Ready
  /\ LET tok == SessionToken(cookie, bearer)
         st == require_coach_developer(tok) IN
     resp' = IF st # 200
               THEN Reply("list-observations", st, tok, None, None, None)
               ELSE ReplyList("list-observations", 200, tok, None,
                              ObservationsOf(get_current_user(tok).id))
  /\ UNCHANGED << content, mail, inflight, started, now, users, user_sessions, invites, coaches,
                  organizations, password_resets, nextId, hist >>

\* get_observation_session: the response names the observer_id of the session.
get_observation_session(cookie, bearer, session_id) ==
  /\ Ready
  /\ LET tok == SessionToken(cookie, bearer)
         st == require_coach_developer(tok) IN
     resp' = IF st # 200
               THEN Reply("get-observation", st, tok, session_id, None, None)
             ELSE IF FindObservation(session_id, get_current_user(tok).id) = {}
               THEN Reply("get-observation", 404, tok, session_id, None, None)
             ELSE Reply("get-observation", 200, tok, session_id,
                        observation_sessions[session_id].observer_id, None)
  /\ UNCHANGED << content, mail, inflight, started, now, users, user_sessions, invites, coaches,
                  organizations, password_resets, nextId, hist >>

\* create_observation_session: an upsert on session_id alone.  An exception
\* of require_coach_developer that is not an HTTPException is answered 401.
create_observation_session(cookie, bearer, session_id, coach_id, status) ==
  /\ Ready
  /\ LET tok == SessionToken(cookie, bearer)
         guard == require_coach_developer(tok)
         st == IF guard = 500 THEN 401 ELSE guard
         me == get_current_user(tok).id IN
     IF st # 200
       THEN /\ resp' = Reply("create-observation", st, tok, session_id, None, None)
            /\ UNCHANGED << observation_sessions, sessions >>
       ELSE /\ observation_sessions' = With(observation_sessions, session_id,
                 [observer_id |-> me, coach_id |-> coach_id, status |-> status])
            /\ sessions' = SaveCoachSession(session_id, coach_id, status, me)
            /\ resp' = Reply("create-observation", 200, tok, session_id, me, None)
  /\ UNCHANGED << reflections, reflection_templates, mail, inflight, started, now, users,
                  user_sessions, invites, coaches, organizations, password_resets,
                  nextId, hist >>

update_observation_session(cookie, bearer, session_id, coach_id, status) ==
  /\ Ready
  /\ LET tok == SessionToken(cookie, bearer)
         st == require_coach_developer(tok)
         me == get_current_user(tok).id IN
     IF st # 200
       THEN /\ resp' = Reply("update-observation", st, tok, session_id, None, None)
            /\ UNCHANGED << observation_sessions, sessions >>
     ELSE IF FindObservation(session_id, me) = {}
       THEN /\ resp' = Reply("update-observation", 404, tok, session_id, None, None)
            /\ UNCHANGED << observation_sessions, sessions >>
     ELSE /\ observation_sessions' =
               [observation_sessions EXCEPT ![session_id].coach_id = coach_id,
                                            ![session_id].status = status]
          /\ sessions' = SaveCoachSession(session_id, coach_id, status, me)
          /\ resp' = Reply("update-observation", 200, tok, session_id, me, None)
  /\ UNCHANGED << reflections, reflection_templates, mail, inflight, started, now, users,
                  user_sessions, invites, coaches, organizations, password_resets,
                  nextId, hist >>

delete_observation_session(cookie, bearer, session_id) ==
  /\ Ready
  /\ LET tok == SessionToken(cookie, bearer)
         st == require_coach_developer(tok)
         me == get_current_user(tok).id IN
     IF st # 200
       THEN /\ resp' = Reply("delete-observation", st, tok, session_id, None, None)
            /\ UNCHANGED << observation_sessions, sessions >>
     ELSE IF FindObservation(session_id, me) = {}
       THEN /\ resp' = Reply("delete-observation", 404, tok, session_id, None, None)
            /\ UNCHANGED << observation_sessions, sessions >>
     ELSE /\ observation_sessions' = Without(observation_sessions, {session_id})
          /\ sessions' = Without(sessions, {session_id})
          /\ resp' = Reply("delete-observation", 200, tok, session_id, me, None)
  /\ UNCHANGED << reflections, reflection_templates, mail, inflight, started, now, users,
                  user_sessions, invites, coaches, organizations, password_resets,
                  nextId, hist >>

(***************************************************************************)
(* Reflections of a coach: POST /coach/reflections                          *)
(***************************************************************************)
\* require_coach: the status it ends the request with, 200 when it admits.
require_coach(tok) ==
  IF require_auth(tok) # 200 THEN require_auth(tok)
  ELSE IF users[get_current_user(tok).id].role # "coach" THEN 403 ELSE 200

\* The coach profile require_coach leaves the user linked to: the one the
\* user document names, else a profile with the user's e-mail address, else a
\* new profile.
CoachLinks(me) ==
  LET profiles == {c \in DOMAIN coaches : coaches[c].email = users[me].email} IN
  IF users[me].linked_coach_id # None THEN {users[me].linked_coach_id}
  ELSE IF profiles # {} THEN profiles
  ELSE {Fresh("coach")}

\* A lookup of the existing reflection that never finds one.
FindNoReflection(session_id, coach_id) == {}

\* find_one({"session_id": ..., "coach_id": user.linked_coach_id})
FindReflection(session_id, coach_id) ==
  {r \in DOMAIN reflections :
     reflections[r].session_id = session_id /\ reflections[r].coach_id = coach_id}

create_reflection(cookie, bearer, session_id) ==
  /\ Ready
  /\ LET tok == SessionToken(cookie, bearer)
         st == require_coach(tok)
         me == get_current_user(tok).id IN
     IF st # 200
       THEN /\ resp' = Reply("create-reflection", st, tok, session_id, None, None)
            /\ UNCHANGED << users, coaches, reflections, nextId >>
     ELSE \E linked \in CoachLinks(me) :
       LET creates == linked \notin DOMAIN coaches /\ users[me].linked_coach_id = None
           status == IF session_id \notin DOMAIN sessions THEN 404
                     ELSE IF sessions[session_id].coach_id # linked THEN 403
                     ELSE IF FindReflection(session_id, linked) # {} THEN 400
                     ELSE 200 IN
       /\ creates => Available("coach")
       /\ status = 200 => Available("reflection")
       /\ users' = [users EXCEPT ![me].linked_coach_id = linked]
       /\ coaches' = IF creates
                       THEN With(coaches, linked,
                                 NewCoach(users[me].email, None, None, None, None))
                       ELSE coaches
       /\ reflections' =
            IF status = 200
              THEN With(reflections, Fresh("reflection"),
                        [session_id |-> session_id, coach_id |-> linked])
              ELSE reflections
       /\ nextId' = Take((IF creates THEN {"coach"} ELSE {})
                         \cup (IF status = 200 THEN {"reflection"} ELSE {}))
       /\ resp' = Reply("create-reflection", status, tok, session_id, me, None)
  /\ UNCHANGED << observation_sessions, sessions, reflection_templates, mail, inflight, started,
                  now, user_sessions, invites, organizations, password_resets,
                  hist >>

(***************************************************************************)
(* Reflection templates: /reflection-templates                              *)
(***************************************************************************)
TargetRoles == {"coach_educator", "coach"}
\* The query parameter target_role left out.
NoRole == "None"
TemplateNames == {1, 2}
\* ReflectionTemplateUpdate.is_default: Optional[bool]
DefaultChoices == {"None", "True", "False"}
TemplateChoices == (1..(nextId.template - 1)) \cup {BogusId}

\* db.organizations.find_one({"owner_id": user.user_id}): its org_id, or None.
OwnedOrg(user_id) ==
  IF OwnedOrgs(user_id) = {} THEN {None} ELSE OwnedOrgs(user_id)

\* update_many({"organization_id": org_id, "target_role": target_role,
\*              "is_default": True, "template_id": {"$ne": except}},
\*             {"$set": {"is_default": False}})
UnsetDefaults(ts, org_id, target_role, except) ==
  [t \in DOMAIN ts |->
     IF /\ ts[t].organization_id = org_id
        /\ ts[t].target_role = target_role
        /\ ts[t].is_default
        /\ t # except
       THEN [ts[t] EXCEPT !.is_default = FALSE]
       ELSE ts[t]]

\* list_reflection_templates: the templates of the user's organization (the
\* one the user document names, else, for a coach developer, the one the user
\* owns), else the templates the user created.
list_reflection_templates(cookie, bearer, target_role) ==
  /\ Ready
  /\ LET tok == SessionToken(cookie, bearer)
         st == require_auth(tok)
         me == get_current_user(tok).id IN
     IF st # 200
       THEN resp' = Reply("list-templates", st, tok, target_role, None, None)
       ELSE \E owned \in OwnedOrg(me) :
         LET org_id == IF users[me].organization_id # None
                         THEN users[me].organization_id
                       ELSE IF users[me].role = "coach_developer" THEN owned
                       ELSE None IN
         resp' = ReplyList("list-templates", 200, tok, target_role,
                   {t \in DOMAIN reflection_templates :
                      /\ IF org_id # None
                           THEN reflection_templates[t].organization_id = org_id
                           ELSE reflection_templates[t].created_by = me
                      /\ target_role # NoRole =>
                           reflection_templates[t].target_role = target_role})
  /\ UNCHANGED << content, mail, inflight, started, now, users, user_sessions, invites, coaches,
                  organizations, password_resets, nextId, hist >>

\* create_reflection_template: the defaults of the organization are unset
\* only when the creator has an organization.
create_reflection_template(cookie, bearer, name, target_role, is_default) ==
  /\ Ready
  /\ LET tok == SessionToken(cookie, bearer)
         st == require_coach_developer(tok)
         me == get_current_user(tok).id
         template_id == Fresh("template") IN
     IF st # 200
       THEN /\ resp' = Reply("create-template", st, tok, None, None, None)
            /\ UNCHANGED << reflection_templates, nextId >>
       ELSE \E owned \in OwnedOrg(me) :
         LET org_id == IF users[me].organization_id # None
                         THEN users[me].organization_id ELSE owned
             others == IF is_default /\ org_id # None
                         THEN UnsetDefaults(reflection_templates, org_id,
                                            target_role, None)
                         ELSE reflection_templates IN
         /\ Available("template")
         /\ reflection_templates' = With(others, template_id,
              [name |-> name, target_role |-> target_role,
               is_default |-> is_default, created_by |-> me,
               organization_id |-> org_id])
         /\ nextId' = Take({"template"})
         /\ resp' = Reply("create-template", 200, tok, template_id, me, None)
  /\ UNCHANGED << observation_sessions, sessions, reflections, mail, inflight, started, now,
                  users, user_sessions, invites, coaches, organizations,
                  password_resets, hist >>

\* A template route that ends with a status and leaves the templates alone.
TemplateAnswer(op, status, tok, template_id) ==
  /\ resp' = Reply(op, status, tok, template_id, None, None)
  /\ UNCHANGED reflection_templates

\* The ownership test that update and delete make.
OnlyCreator(template_id, user_id) ==
  reflection_templates[template_id].created_by # user_id

update_reflection_template(cookie, bearer, template_id, name, is_default) ==
  /\ Ready
  /\ LET tok == SessionToken(cookie, bearer)
         st == require_coach_developer(tok)
         me == get_current_user(tok).id IN
     IF st # 200 THEN TemplateAnswer("update-template", st, tok, template_id)
     ELSE IF template_id \notin DOMAIN reflection_templates
       THEN TemplateAnswer("update-template", 404, tok, template_id)
     ELSE IF OnlyCreator(template_id, me)
       THEN TemplateAnswer("update-template", 403, tok, template_id)
     ELSE
       LET template == reflection_templates[template_id]
           others == IF is_default = "True" /\ template.organization_id # None
                       THEN UnsetDefaults(reflection_templates,
                                          template.organization_id,
                                          template.target_role, template_id)
                       ELSE reflection_templates IN
       /\ reflection_templates' =
            [others EXCEPT
               ![template_id].name = IF name # None THEN name ELSE @,
               ![template_id].is_default =
                  IF is_default = "None" THEN @ ELSE is_default = "True"]
       /\ resp' = Reply("update-template", 200, tok, template_id, me, None)
  /\ UNCHANGED << observation_sessions, sessions, reflections, mail, inflight, started, now,
                  users, user_sessions, invites, coaches, organizations,
                  password_resets, nextId, hist >>

delete_reflection_template(cookie, bearer, template_id) ==
  /\ Ready
  /\ LET tok == SessionToken(cookie, bearer)
         st == require_coach_developer(tok)
         me == get_current_user(tok).id IN
     IF st # 200 THEN TemplateAnswer("delete-template", st, tok, template_id)
     ELSE IF template_id \notin DOMAIN reflection_templates
       THEN TemplateAnswer("delete-template", 404, tok, template_id)
     ELSE IF OnlyCreator(template_id, me)
       THEN TemplateAnswer("delete-template", 403, tok, template_id)
     ELSE /\ reflection_templates' = Without(reflection_templates, {template_id})
          /\ resp' = Reply("delete-template", 200, tok, template_id, me, None)
  /\ UNCHANGED << observation_sessions, sessions, reflections, mail, inflight, started, now,
                  users, user_sessions, invites, coaches, organizations,
                  password_resets, nextId, hist >>

\* set_template_as_default: no ownership test.
set_template_as_default(cookie, bearer, template_id) ==
  /\ Ready
  /\ LET tok == SessionToken(cookie, bearer)
         st == require_coach_developer(tok)
         me == get_current_user(tok).id IN
     IF st # 200 THEN TemplateAnswer("set-default", st, tok, template_id)
     ELSE IF template_id \notin DOMAIN reflection_templates
       THEN TemplateAnswer("set-default", 404, tok, template_id)
     ELSE
       LET template == reflection_templates[template_id]
           others == IF template.organization_id # None
                       THEN UnsetDefaults(reflection_templates,
                                          template.organization_id,
                                          template.target_role, None)
                       ELSE reflection_templates IN
       /\ reflection_templates' = [others EXCEPT ![template_id].is_default = TRUE]
       /\ resp' = Reply("set-default", 200, tok, template_id, me, None)
  /\ UNCHANGED << observation_sessions, sessions, reflections, mail, inflight, started, now,
                  users, user_sessions, invites, coaches, organizations,
                  password_resets, nextId, hist >>

\* unset_template_as_default: no ownership test.
unset_template_as_default(cookie, bearer, template_id) ==
  /\ Ready
  /\ LET tok == SessionToken(cookie, bearer)
         st == require_coach_developer(tok)
         me == get_current_user(tok).id IN
     IF st # 200 THEN TemplateAnswer("unset-default", st, tok, template_id)
     ELSE IF template_id \notin DOMAIN reflection_templates
       THEN TemplateAnswer("unset-default", 404, tok, template_id)
     ELSE /\ reflection_templates' =
               [reflection_templates EXCEPT ![template_id].is_default = FALSE]
          /\ resp' = Reply("unset-default", 200, tok, template_id, me, None)
  /\ UNCHANGED << observation_sessions, sessions, reflections, mail, inflight, started, now,
                  users, user_sessions, invites, coaches, organizations,
                  password_resets, nextId, hist >>

(***************************************************************************)
(* GET /users/check-first                                                   *)
(***************************************************************************)
\* check_first_user: status 200 always; is_first is reported in user as 1 or 0.
check_first_user ==
  /\ Ready
  /\ resp' = Reply("check-first", 200, None, None,
                   IF DOMAIN users = {} THEN 1 ELSE 0, None)
  /\ UNCHANGED << content, mail, inflight, started, now, users, user_sessions, invites, coaches,
                  organizations, password_resets, nextId, hist >>

(***************************************************************************)
(* Registration requests in service at the same time.  A handler is a        *)
(* coroutine: it runs up to its next await of a database call, and another   *)
(* request can run while it waits.  Each step below is one database call     *)
(* and the code up to the next one.                                          *)
(***************************************************************************)
Continue(r, req) == inflight' = [inflight EXCEPT ![r] = req]
At(req, pc) == [req EXCEPT !.pc = pc]
\* The handler has returned or raised: its local variables are gone; the
\* record keeps the invite the request consumed and the user it created.
Finished(req, status) ==
  [NoRequest EXCEPT !.op = req.op, !.pc = "done", !.status = status,
                    !.invite = req.invite, !.user_id = req.user_id]

\* Request r arrives: the requests are numbered in the order of arrival.
Arrives(r) ==
  /\ started
  /\ inflight[r].pc = "idle"
  /\ \A q \in 1..(r - 1) : inflight[q].pc # "idle"

\* What a step that writes no collection leaves alone.
ReadOnly ==
  UNCHANGED << users, user_sessions, invites, coaches, nextId, hist >>

\* db.invites.update_one({"invite_id": ...}, {"$set": {"used": True}})
MarkUsed(invite_id) ==
  /\ invites' = IF invite_id \in DOMAIN invites
                  THEN [invites EXCEPT ![invite_id].used = TRUE]
                  ELSE invites
  /\ hist' = [hist EXCEPT !.consumed = @ \cup {invite_id}]

\* register_from_invite after the coach profile has given the name: the
\* password test, then the inviter's organization if there is an inviter.
AfterName(req) ==
  IF Len(req.password) < MIN_PASSWORD_LENGTH THEN Finished(req, 400)
  ELSE IF req.invited_by # None THEN At(req, "find_inviter")
  ELSE At(req, "insert_user")

\* POST /auth/register-invite up to the answer of db.invites.find_one.
register_from_invite_begin(r, invite_id, password) ==
  /\ Arrives(r)
  /\ LET req == [NoRequest EXCEPT !.op = "register-invite", !.arg = invite_id,
                                  !.password = password] IN
     IF invite_id \notin DOMAIN invites THEN Continue(r, Finished(req, 404))
     ELSE IF invites[invite_id].used THEN Continue(r, Finished(req, 400))
     ELSE Continue(r, [req EXCEPT !.pc = "find_user",
                                  !.invite = invite_id,
                                  !.email = invites[invite_id].email,
                                  !.role = invites[invite_id].role,
                                  !.coach_id = invites[invite_id].coach_id,
                                  !.invited_by = invites[invite_id].invited_by])
  /\ ReadOnly
  /\ UNCHANGED << content, mail, started, now, organizations, password_resets,
                  resp >>

\* register_from_invite from one await to the next.
register_from_invite_resume(r) ==
  /\ inflight[r].op = "register-invite"
  /\ LET req == inflight[r] IN
     CASE req.pc = "find_user" ->
            /\ Continue(r,
                 IF \E u \in DOMAIN users : RegexMatch(req.email, users[u].email)
                   THEN Finished(req, 400)
                 ELSE IF req.coach_id # None THEN At(req, "find_coach")
                 ELSE AfterName(req))
            /\ ReadOnly
       [] req.pc = "find_coach" ->
            /\ Continue(r, AfterName(req))
            /\ ReadOnly
       [] req.pc = "find_inviter" ->
            /\ Continue(r, [req EXCEPT !.pc = "insert_user",
                 !.organization_id =
                    IF req.invited_by \in DOMAIN users
                      THEN users[req.invited_by].organization_id ELSE None])
            /\ ReadOnly
       [] req.pc = "insert_user" ->
            /\ Available("user")
            /\ users' = With(users, Fresh("user"),
                 NewUser(req.email, req.role, hash_password(req.password),
                         req.coach_id, req.organization_id, "none"))
            /\ nextId' = Take({"user"})
            /\ Continue(r, [req EXCEPT !.user_id = Fresh("user"),
                 !.pc = IF req.coach_id # None THEN "update_coach"
                                               ELSE "mark_used"])
            /\ UNCHANGED << user_sessions, invites, coaches, hist >>
       [] req.pc = "update_coach" ->
            /\ coaches' = LinkCoach(coaches, req.coach_id, req.user_id)
            /\ Continue(r, At(req, "mark_used"))
            /\ UNCHANGED << users, user_sessions, invites, nextId, hist >>
       [] req.pc = "mark_used" ->
            /\ MarkUsed(req.invite)
            /\ Continue(r, At(req, "insert_session"))
            /\ UNCHANGED << users, user_sessions, coaches, nextId >>
       [] req.pc = "insert_session" ->
            /\ Available("token")
            /\ user_sessions' = With(user_sessions, Fresh("token"),
                                     NewSession(req.user_id, NoExpiry))
            /\ nextId' = Take({"token"})
            /\ Continue(r, Finished(req, 200))
            /\ UNCHANGED << users, invites, coaches, hist >>
       [] OTHER -> FALSE
  /\ UNCHANGED << content, mail, started, now, organizations, password_resets,
                  resp >>

\* POST /auth/signup, without club_name and club_logo, up to the answer of
\* db.users.find_one.
signup_begin(r, email, password) ==
  /\ Arrives(r)
  /\ LET req == [NoRequest EXCEPT !.op = "signup", !.email = email,
                                  !.password = password] IN
     Continue(r,
       IF ~validate_email(email) THEN Finished(req, 400)
       ELSE IF ~validate_password(password) THEN Finished(req, 400)
       ELSE IF \E u \in DOMAIN users : RegexMatch(Lower(email), users[u].email)
         THEN Finished(req, 400)
       ELSE At(req, "count_users"))
  /\ ReadOnly
  /\ UNCHANGED << content, mail, started, now, organizations, password_resets,
                  resp >>

\* signup from one await to the next.
signup_resume(r) ==
  /\ inflight[r].op = "signup"
  /\ LET req == inflight[r] IN
     CASE req.pc = "count_users" ->
            /\ Continue(r, IF DOMAIN users = {}
                             THEN [req EXCEPT !.pc = "insert_user",
                                              !.role = "coach_developer"]
                             ELSE At(req, "find_invite"))
            /\ ReadOnly
       [] req.pc = "find_invite" ->
            LET found == {i \in DOMAIN invites :
                            /\ RegexMatch(Lower(req.email), invites[i].email)
                            /\ invites[i].used = FALSE} IN
            /\ IF found = {} THEN Continue(r, Finished(req, 403))
               ELSE \E i \in found :
                      Continue(r, [req EXCEPT !.pc = "mark_used",
                                              !.invite = i,
                                              !.role = invites[i].role,
                                              !.coach_id = invites[i].coach_id])
            /\ ReadOnly
       [] req.pc = "mark_used" ->
            /\ MarkUsed(req.invite)
            /\ Continue(r, At(req, "insert_user"))
            /\ UNCHANGED << users, user_sessions, coaches, nextId >>
       [] req.pc = "insert_user" ->
            /\ Available("user")
            /\ users' = With(users, Fresh("user"),
                 NewUser(req.email, req.role, hash_password(req.password),
                         req.coach_id, None, "email"))
            /\ nextId' = Take({"user"})
            /\ Continue(r, [req EXCEPT !.user_id = Fresh("user"),
                 !.pc = IF req.role = "coach" /\ req.coach_id # None
                          THEN "update_coach" ELSE "insert_session"])
            /\ UNCHANGED << user_sessions, invites, coaches, hist >>
       [] req.pc = "update_coach" ->
            /\ coaches' = LinkCoach(coaches, req.coach_id, req.user_id)
            /\ Continue(r, At(req, "insert_session"))
            /\ UNCHANGED << users, user_sessions, invites, nextId, hist >>
       [] req.pc = "insert_session" ->
            /\ Available("token")
            /\ user_sessions' = With(user_sessions, Fresh("token"),
                                     NewSession(req.user_id, now + SESSION_TTL))
            /\ nextId' = Take({"token"})
            /\ Continue(r, Finished(req, 200))
            /\ UNCHANGED << users, invites, coaches, hist >>
       [] OTHER -> FALSE
  /\ UNCHANGED << content, mail, started, now, organizations, password_resets,
                  resp >>

\* POST /auth/session up to the answer of the OAuth provider, for the e-mail
\* address it returns (ok), or for a request without session_id / a
\* session_id the provider rejects.
exchange_session_begin(r, email, outcome) ==
  /\ Arrives(r)
  /\ LET req == [NoRequest EXCEPT !.op = "session", !.email = email] IN
     Continue(r, IF outcome = "missing" THEN Finished(req, 400)
                 ELSE IF outcome = "rejected" THEN Finished(req, 401)
                 ELSE At(req, "find_user"))
  /\ ReadOnly
  /\ UNCHANGED << content, mail, started, now, organizations, password_resets,
                  resp >>

\* exchange_session from one await to the next.
exchange_session_resume(r) ==
  /\ inflight[r].op = "session"
  /\ LET req == inflight[r] IN
     CASE req.pc = "find_user" ->
            LET existing == {u \in DOMAIN users : users[u].email = req.email} IN
            /\ IF existing # {}
                 THEN \E u \in existing :
                        Continue(r, [req EXCEPT !.pc = "update_user", !.user_id = u])
                 ELSE Continue(r, At(req, "find_invite"))
            /\ ReadOnly
       [] req.pc = "update_user" ->
            /\ Continue(r, At(req, "insert_session"))
            /\ ReadOnly
       [] req.pc = "find_invite" ->
            LET found == {i \in DOMAIN invites :
                            invites[i].email = req.email /\ invites[i].used = FALSE} IN
            /\ IF found = {} THEN Continue(r, At(req, "count_users"))
               ELSE \E i \in found :
                      Continue(r, [req EXCEPT !.pc = "count_users",
                                              !.invite = i,
                                              !.role = invites[i].role,
                                              !.coach_id = invites[i].coach_id,
                                              !.invited_by = invites[i].invited_by])
            /\ ReadOnly
       [] req.pc = "count_users" ->
            /\ Continue(r,
                 IF DOMAIN users = {}
                   THEN [req EXCEPT !.pc = "insert_user", !.invite = None,
                                    !.role = "coach_developer", !.coach_id = None]
                 ELSE IF req.invite # None THEN At(req, "mark_used")
                 ELSE Finished(req, 403))
            /\ ReadOnly
       [] req.pc = "mark_used" ->
            /\ MarkUsed(req.invite)
            /\ Continue(r, At(req, IF req.role = "coach" THEN "find_coach"
                                                         ELSE "insert_user"))
            /\ UNCHANGED << users, user_sessions, coaches, nextId >>
       [] req.pc = "find_coach" ->
            LET profiles == {c \in DOMAIN coaches :
                               RegexMatch(req.email, coaches[c].email)} IN
            /\ IF profiles # {}
                 THEN \E c \in profiles :
                        Continue(r, [req EXCEPT !.pc = "insert_user", !.coach_id = c])
                 ELSE Continue(r, At(req, "insert_coach"))
            /\ ReadOnly
       [] req.pc = "insert_coach" ->
            /\ Available("coach")
            /\ coaches' = With(coaches, Fresh("coach"),
                 NewCoach(req.email, None, req.invited_by, None, None))
            /\ nextId' = Take({"coach"})
            /\ Continue(r, [req EXCEPT !.pc = "insert_user",
                                       !.coach_id = Fresh("coach")])
            /\ UNCHANGED << users, user_sessions, invites, hist >>
       [] req.pc = "insert_user" ->
            /\ Available("user")
            /\ users' = With(users, Fresh("user"),
                 NewUser(req.email, req.role, NoText, req.coach_id, None, "google"))
            /\ nextId' = Take({"user"})
            /\ Continue(r, [req EXCEPT !.user_id = Fresh("user"),
                 !.pc = IF req.role = "coach" /\ req.coach_id # None
                          THEN "update_coach" ELSE "insert_session"])
            /\ UNCHANGED << user_sessions, invites, coaches, hist >>
       [] req.pc = "update_coach" ->
            /\ coaches' = LinkCoach(coaches, req.coach_id, req.user_id)
            /\ Continue(r, At(req, "insert_session"))
            /\ UNCHANGED << users, user_sessions, invites, nextId, hist >>
       [] req.pc = "insert_session" ->
            /\ Available("token")
            /\ user_sessions' = With(user_sessions, Fresh("token"),
                                     NewSession(req.user_id, now + SESSION_TTL))
            /\ nextId' = Take({"token"})
            /\ Continue(r, Finished(req, 200))
            /\ UNCHANGED << users, invites, coaches, hist >>
       [] OTHER -> FALSE
  /\ UNCHANGED << content, mail, started, now, organizations, password_resets,
                  resp >>

(***************************************************************************)
(* send_email_with_retry: the retry loop around resend.Emails.send.         *)
(***************************************************************************)
\* The markers of an error that is not retried.
permanent_errors ==
  << << "a","p","i","_","k","e","y" >>,
     << "u","n","a","u","t","h","o","r","i","z","e","d" >>,
     << "f","o","r","b","i","d","d","e","n" >>,
     << "v","e","r","i","f","y" >>,
     << "d","o","m","a","i","n" >>,
     << "t","e","s","t","i","n","g"," ","e","m","a","i","l","s" >> >>

\* The texts str(e) of the errors that resend.Emails.send raises in the model.
ErrorCatalog ==
  << << "t","i","m","e","o","u","t" >>,
     << "r","a","t","e"," ","l","i","m","i","t" >>,
     << "F","o","r","b","i","d","d","e","n" >>,
     << "b","a","d"," ","a","p","i","_","k","e","y" >> >>
ErrorChoices == 1..Len(ErrorCatalog)

\* needle in hay, for two strings
Contains(needle, hay) ==
  \E i \in 0..(Len(hay) - Len(needle)) : SubSeq(hay, i + 1, i + Len(needle)) = needle

\* No error is permanent.
is_never_permanent(error_msg) == FALSE

\* any(err in error_msg.lower() for err in permanent_errors)
is_permanent(error_msg) ==
  \E k \in 1..Len(permanent_errors) : Contains(permanent_errors[k], Lower(error_msg))

\* wait_time = 2 ** attempt
wait_time(attempt) == 2 ^ attempt

MailFrame == UNCHANGED << started, now, db, nextId, hist, inflight, resp >>

\* The call send_email_with_retry(params, email_type, max_retries): the loop
\* starts with attempt = 1.
send_email_with_retry(max_retries) ==
  /\ mail.pc \in {"idle", "returned", "raised"}
  /\ mail' = [NoMail EXCEPT !.pc = "send", !.max_retries = max_retries,
                            !.attempt = 1]
  /\ MailFrame

\* One pass of the loop body: resend.Emails.send returns, or raises the error
\* with text ErrorCatalog[outcome]; after the last pass the loop ends and the
\* function raises last_error.
resend_Emails_send(outcome) ==
  /\ mail.pc = "send"
  /\ LET attempt == mail.attempt
         tried == [mail EXCEPT !.sends = Append(@, outcome)] IN
     IF outcome = NoError
       THEN mail' = [tried EXCEPT !.pc = "returned"]
     ELSE IF is_permanent(ErrorCatalog[outcome])
       THEN mail' = [tried EXCEPT !.pc = "raised", !.last_error = outcome,
                                  !.raised = outcome]
     ELSE IF attempt < mail.max_retries
       THEN mail' = [tried EXCEPT !.pc = "sleep", !.last_error = outcome,
                       !.sleeps = Append(@, [after |-> attempt,
                                             secs |-> wait_time(attempt)])]
     ELSE mail' = [tried EXCEPT !.pc = "raised", !.last_error = outcome,
                                !.raised = outcome]
  /\ MailFrame

\* asyncio.sleep(wait_time) is over: the loop goes on with the next attempt.
asyncio_sleep ==
  /\ mail.pc = "sleep"
  /\ mail' = [mail EXCEPT !.pc = "send", !.attempt = @ + 1]
  /\ MailFrame

Next ==
  \/ \E m \in 1..MaxRetries : send_email_with_retry(m)
  \/ \E r \in RequestIds, i \in InviteChoices, p \in Passwords :
        register_from_invite_begin(r, i, p)
  \/ \E r \in RequestIds : register_from_invite_resume(r)
  \/ \E r \in RequestIds, e \in Emails, p \in Passwords : signup_begin(r, e, p)
  \/ \E r \in RequestIds : signup_resume(r)
  \/ \E r \in RequestIds, e \in Emails, o \in {"missing", "rejected", "ok"} :
        exchange_session_begin(r, e, o)
  \/ \E r \in RequestIds : exchange_session_resume(r)
  \/ \E o \in {NoError} \cup ErrorChoices : resend_Emails_send(o)
  \/ asyncio_sleep
  \/ bootstrap_admin
  \/ send_response
  \/ Tick
  \/ \E e \in Emails, p \in Passwords : login(e, p)
  \/ \E cb \in Creds : get_current_user_info(cb[1], cb[2])
  \/ \E cb \in Creds : logout(cb[1], cb[2])
  \/ \E e \in Emails, p \in Passwords, club \in BOOLEAN : signup(e, p, club)
  \/ \E e \in Emails, o \in {"missing", "rejected", "ok"} : exchange_session(e, o)
  \/ \E i \in InviteChoices, p \in Passwords : register_from_invite(i, p)
  \/ \E i \in InviteChoices : validate_invite(i)
  \/ \E e \in Emails : forgot_password(e)
  \/ \E t \in ResetChoices, p \in Passwords : reset_password(t, p)
  \/ \E t \in ResetChoices : verify_reset_token(t)
  \/ \E cb \in Creds, p \in Passwords, q \in Passwords :
        change_password(cb[1], cb[2], p, q)
  \/ \E cb \in Creds, e \in Emails, r \in InviteRoles, c \in CoachChoices :
        create_invite(cb[1], cb[2], e, r, c)
  \/ \E cb \in Creds, i \in InviteChoices : delete_invite(cb[1], cb[2], i)
  \/ \E cb \in Creds, e \in Emails : delete_invite_by_email(cb[1], cb[2], e)
  \/ \E cb \in Creds : list_users(cb[1], cb[2])
  \/ \E cb \in Creds, u \in UserChoices, r \in Roles :
        update_user_role(cb[1], cb[2], u, r)
  \/ \E cb \in Creds, u \in UserChoices, c \in CoachChoices :
        link_user_to_coach(cb[1], cb[2], u, c)
  \/ \E cb \in Creds, u \in UserChoices : delete_user(cb[1], cb[2], u)
  \/ \E cb \in Creds : list_all_coaches(cb[1], cb[2])
  \/ \E cb \in Creds, n \in BOOLEAN, e \in Emails \cup {NoText} :
        create_coach_manually(cb[1], cb[2], n, e)
  \/ \E cb \in Creds, c \in CoachChoices : get_coach_detail(cb[1], cb[2], c)
  \/ \E cb \in Creds, c \in CoachChoices, d \in BOOLEAN :
        delete_coach(cb[1], cb[2], c, d)
  \/ \E cb \in Creds : update_organization(cb[1], cb[2])
  \/ \E cb \in Creds : admin_create_organization(cb[1], cb[2])
  \/ \E cb \in Creds, e \in Emails, r \in Roles, o \in OrgChoices :
        admin_create_user(cb[1], cb[2], e, r, o)
  \/ \E cb \in Creds, u \in UserChoices, p \in Passwords :
        admin_reset_user_password(cb[1], cb[2], u, p)
  \/ \E cb \in Creds, u \in UserChoices : admin_impersonate_user(cb[1], cb[2], u)
  \/ \E cb \in Creds : admin_exit_impersonation(cb[1], cb[2])
  \/ \E cb \in Creds, u \in UserChoices : admin_delete_user(cb[1], cb[2], u)
  \/ \E cb \in Creds, o \in OrgChoices : admin_delete_organization(cb[1], cb[2], o)
  \/ check_first_user
  \/ \E cb \in Creds : list_observation_sessions(cb[1], cb[2])
  \/ \E cb \in Creds, s \in ObservationChoices :
        get_observation_session(cb[1], cb[2], s)
  \/ \E cb \in Creds, s \in ObservationChoices, c \in CoachChoices,
        st \in ObservationStatuses :
        create_observation_session(cb[1], cb[2], s, c, st)
  \/ \E cb \in Creds, s \in ObservationChoices, c \in CoachChoices,
        st \in ObservationStatuses :
        update_observation_session(cb[1], cb[2], s, c, st)
  \/ \E cb \in Creds, s \in ObservationChoices :
        delete_observation_session(cb[1], cb[2], s)
  \/ \E cb \in Creds, s \in ObservationChoices : create_reflection(cb[1], cb[2], s)
  \/ \E cb \in Creds, r \in TargetRoles \cup {NoRole} :
        list_reflection_templates(cb[1], cb[2], r)
  \/ \E cb \in Creds, n \in TemplateNames, r \in TargetRoles, d \in BOOLEAN :
        create_reflection_template(cb[1], cb[2], n, r, d)
  \/ \E cb \in Creds, t \in TemplateChoices, n \in TemplateNames \cup {None},
        d \in DefaultChoices :
        update_reflection_template(cb[1], cb[2], t, n, d)
  \/ \E cb \in Creds, t \in TemplateChoices :
        delete_reflection_template(cb[1], cb[2], t)
  \/ \E cb \in Creds, t \in TemplateChoices : set_template_as_default(cb[1], cb[2], t)
  \/ \E cb \in Creds, t \in TemplateChoices :
        unset_template_as_default(cb[1], cb[2], t)

(***************************************************************************)
(* Registration: the routes that create accounts and the routes that write   *)
(* the invites collection, with login and /auth/me to use the sessions.      *)
(***************************************************************************)
NextRegistration ==
  \/ bootstrap_admin
  \/ send_response
  \/ \E e \in Emails, p \in Passwords : login(e, p)
  \/ \E c \in TokenChoices : get_current_user_info(c, None)
  \/ \E e \in Emails, p \in Passwords, club \in BOOLEAN : signup(e, p, club)
  \/ \E e \in Emails, o \in {"missing", "rejected", "ok"} : exchange_session(e, o)
  \/ \E i \in InviteChoices, p \in Passwords : register_from_invite(i, p)
  \/ \E i \in InviteChoices : validate_invite(i)
  \/ \E c \in TokenChoices, e \in Emails, r \in InviteRoles :
        create_invite(c, None, e, r, None)
  \/ \E c \in TokenChoices, i \in InviteChoices : delete_invite(c, None, i)
  \/ \E c \in TokenChoices, e \in Emails : delete_invite_by_email(c, None, e)
  \/ \E c \in TokenChoices, u \in UserChoices : delete_user(c, None, u)

SpecRegistration == Init /\ [][NextRegistration]_vars

(***************************************************************************)
(* Sessions: the routes that store, use and delete sessions, with the       *)
(* passing of time, credentials sent as cookie or as Bearer header, and      *)
(* routes behind each guard.                                                 *)
(***************************************************************************)
NextSessions ==
  \/ bootstrap_admin
  \/ send_response
  \/ Tick
  \/ \E e \in Emails, p \in Passwords : login(e, p)
  \/ \E cb \in Creds : get_current_user_info(cb[1], cb[2])
  \/ \E cb \in Creds : logout(cb[1], cb[2])
  \/ \E cb \in Creds, e \in Emails, r \in InviteRoles :
        create_invite(cb[1], cb[2], e, r, None)
  \/ \E i \in InviteChoices, p \in Passwords : register_from_invite(i, p)
  \/ \E cb \in Creds : list_users(cb[1], cb[2])
  \/ \E cb \in Creds, u \in UserChoices : delete_user(cb[1], cb[2], u)

SpecSessions == Init /\ [][NextSessions]_vars

(***************************************************************************)
(* Administration: organizations and the users an admin creates in them,    *)
(* impersonation, and the listings behind the role guards.                   *)
(***************************************************************************)
NextAdmin ==
  \/ bootstrap_admin
  \/ send_response
  \/ \E e \in Emails, p \in Passwords : login(e, p)
  \/ \E cb \in Creds, e \in Emails, r \in InviteRoles :
        create_invite(cb[1], cb[2], e, r, None)
  \/ \E i \in InviteChoices, p \in Passwords : register_from_invite(i, p)
  \/ \E cb \in Creds : admin_create_organization(cb[1], cb[2])
  \/ \E cb \in Creds, e \in Emails, r \in Roles, o \in OrgChoices :
        admin_create_user(cb[1], cb[2], e, r, o)
  \/ \E cb \in Creds, u \in UserChoices : admin_impersonate_user(cb[1], cb[2], u)
  \/ \E cb \in Creds : admin_exit_impersonation(cb[1], cb[2])
  \/ \E cb \in Creds : list_users(cb[1], cb[2])
  \/ \E cb \in Creds : list_all_coaches(cb[1], cb[2])
  \/ \E cb \in Creds, c \in CoachChoices : get_coach_detail(cb[1], cb[2], c)

SpecAdmin == Init /\ [][NextAdmin]_vars

(***************************************************************************)
(* Passwords: the routes that store a password and the reset tokens, with    *)
(* the passing of time.                                                      *)
(***************************************************************************)
NextPasswords ==
  \/ bootstrap_admin
  \/ send_response
  \/ Tick
  \/ \E e \in Emails, p \in Passwords : login(e, p)
  \/ \E c \in TokenChoices, e \in Emails : create_invite(c, None, e, "coach", None)
  \/ \E i \in InviteChoices, p \in Passwords : register_from_invite(i, p)
  \/ \E e \in Emails : forgot_password(e)
  \/ \E t \in ResetChoices, p \in Passwords : reset_password(t, p)
  \/ \E t \in ResetChoices : verify_reset_token(t)
  \/ \E c \in TokenChoices, p \in Passwords, q \in Passwords :
        change_password(c, None, p, q)

SpecPasswords == Init /\ [][NextPasswords]_vars

(***************************************************************************)
(* Observations: the routes that read and write observation sessions, with  *)
(* the invited users (a second coach developer, a coach) that call them,    *)
(* and the reflection a coach adds to a session.                            *)
(***************************************************************************)
NextObservations ==
  \/ bootstrap_admin
  \/ send_response
  \/ \E e \in Emails, p \in Passwords : login(e, p)
  \/ \E c \in TokenChoices, e \in Emails, r \in InviteRoles :
        create_invite(c, None, e, r, None)
  \/ \E e \in Emails, p \in Passwords : signup(e, p, FALSE)
  \/ \E c \in TokenChoices : list_observation_sessions(c, None)
  \/ \E c \in TokenChoices, s \in ObservationChoices :
        get_observation_session(c, None, s)
  \/ \E c \in TokenChoices, s \in ObservationChoices, k \in CoachChoices,
        st \in ObservationStatuses :
        create_observation_session(c, None, s, k, st)
  \/ \E c \in TokenChoices, s \in ObservationChoices, k \in CoachChoices,
        st \in ObservationStatuses :
        update_observation_session(c, None, s, k, st)
  \/ \E c \in TokenChoices, s \in ObservationChoices :
        delete_observation_session(c, None, s)
  \/ \E c \in TokenChoices, s \in ObservationChoices : create_reflection(c, None, s)

SpecObservations == Init /\ [][NextObservations]_vars

(***************************************************************************)
(* Templates: the reflection-template routes, called by the admin and by an *)
(* invited coach developer, with or without a club of their own.            *)
(***************************************************************************)
NextTemplates ==
  \/ bootstrap_admin
  \/ send_response
  \/ \E e \in Emails, p \in Passwords : login(e, p)
  \/ \E c \in TokenChoices, e \in Emails :
        create_invite(c, None, e, "coach_developer", None)
  \/ \E e \in Emails, p \in Passwords, club \in BOOLEAN : signup(e, p, club)
  \/ \E c \in TokenChoices, r \in TargetRoles \cup {NoRole} :
        list_reflection_templates(c, None, r)
  \/ \E c \in TokenChoices, n \in TemplateNames, r \in TargetRoles, d \in BOOLEAN :
        create_reflection_template(c, None, n, r, d)
  \/ \E c \in TokenChoices, t \in TemplateChoices, n \in TemplateNames \cup {None},
        d \in DefaultChoices :
        update_reflection_template(c, None, t, n, d)
  \/ \E c \in TokenChoices, t \in TemplateChoices :
        delete_reflection_template(c, None, t)
  \/ \E c \in TokenChoices, t \in TemplateChoices : set_template_as_default(c, None, t)
  \/ \E c \in TokenChoices, t \in TemplateChoices :
        unset_template_as_default(c, None, t)

SpecTemplates == Init /\ [][NextTemplates]_vars

(***************************************************************************)
(* Passwords set by the admin: the users an admin creates, the passwords    *)
(* the admin sets for them, and the logins with those passwords.            *)
(***************************************************************************)
NextAdminPasswords ==
  \/ bootstrap_admin
  \/ send_response
  \/ \E e \in Emails, p \in Passwords \cup {TEMP_PASSWORD} : login(e, p)
  \/ \E c \in TokenChoices : admin_create_organization(c, None)
  \/ \E c \in TokenChoices, e \in Emails, r \in Roles, o \in OrgChoices :
        admin_create_user(c, None, e, r, o)
  \/ \E c \in TokenChoices, u \in UserChoices, p \in Passwords :
        admin_reset_user_password(c, None, u, p)

SpecAdminPasswords == Init /\ [][NextAdminPasswords]_vars

(***************************************************************************)
(* The first user: startup, the two routes a person signs up with, the      *)
(* invites that let others in, and GET /users/check-first.                  *)
(***************************************************************************)
NextFirstUser ==
  \/ bootstrap_admin
  \/ send_response
  \/ check_first_user
  \/ \E e \in Emails, p \in Passwords : login(e, p)
  \/ \E c \in TokenChoices, e \in Emails, r \in InviteRoles :
        create_invite(c, None, e, r, None)
  \/ \E e \in Emails, p \in Passwords, club \in BOOLEAN : signup(e, p, club)
  \/ \E e \in Emails, o \in {"missing", "rejected", "ok"} : exchange_session(e, o)

SpecFirstUser == Init /\ [][NextFirstUser]_vars

(***************************************************************************)
(* Deleting a user: the routes that create a user with a coach profile      *)
(* (an invited sign-up and GET /coaches, POST /admin/users) and the two     *)
(* routes that delete a user.                                               *)
(***************************************************************************)
NextDeleteUser ==
  \/ bootstrap_admin
  \/ send_response
  \/ \E e \in Emails, p \in Passwords : login(e, p)
  \/ \E c \in TokenChoices, e \in Emails :
        create_invite(c, None, e, "coach", None)
  \/ \E e \in Emails, p \in Passwords : signup(e, p, FALSE)
  \/ \E c \in TokenChoices : admin_create_organization(c, None)
  \/ \E c \in TokenChoices, e \in Emails, o \in OrgChoices :
        admin_create_user(c, None, e, "coach", o)
  \/ \E c \in TokenChoices : list_all_coaches(c, None)
  \/ \E c \in TokenChoices, u \in UserChoices : delete_user(c, None, u)
  \/ \E c \in TokenChoices, u \in UserChoices : admin_delete_user(c, None, u)

SpecDeleteUser == Init /\ [][NextDeleteUser]_vars

(***************************************************************************)
(* Users and their coach profiles: the routes that create a user or a       *)
(* profile, link the two, and delete either.                                *)
(***************************************************************************)
NextLinks ==
  \/ bootstrap_admin
  \/ send_response
  \/ \E e \in Emails, p \in Passwords : login(e, p)
  \/ \E c \in TokenChoices, e \in Emails :
        create_invite(c, None, e, "coach", None)
  \/ \E e \in Emails, p \in Passwords : signup(e, p, FALSE)
  \/ \E c \in TokenChoices : list_all_coaches(c, None)
  \/ \E c \in TokenChoices, u \in UserChoices, k \in CoachChoices :
        link_user_to_coach(c, None, u, k)
  \/ \E c \in TokenChoices, u \in UserChoices : delete_user(c, None, u)
  \/ \E c \in TokenChoices, k \in CoachChoices, also_user \in BOOLEAN :
        delete_coach(c, None, k, also_user)
  \/ \E c \in TokenChoices, u \in UserChoices : admin_delete_user(c, None, u)

SpecLinks == Init /\ [][NextLinks]_vars

(***************************************************************************)
(* E-mail: calls of send_email_with_retry.  The event loop resumes the      *)
(* coroutine when the thread that sends returns or raises and when the      *)
(* sleep is over, so a pass or a sleep that can be taken is taken.          *)
(***************************************************************************)
MailStep ==
  \/ \E o \in {NoError} \cup ErrorChoices : resend_Emails_send(o)
  \/ asyncio_sleep

NextMail ==
  \/ \E m \in 1..MaxRetries : send_email_with_retry(m)
  \/ MailStep

SpecMail == Init /\ [][NextMail]_vars /\ WF_vars(MailStep)

(***************************************************************************)
(* Overlapping registrations: the admin invites coaches, and MaxRequests     *)
(* registration requests arrive and are in service at the same time, with   *)
(* a password that is too short for every route or one that every route     *)
(* accepts.                                                                 *)
(***************************************************************************)
OverlapPasswords == {PasswordCatalog[2], ADMIN_PASSWORD}

NextOverlap ==
  \/ bootstrap_admin
  \/ send_response
  \/ login(ADMIN_EMAIL, ADMIN_PASSWORD)
  \/ \E c \in TokenChoices, e \in Emails : create_invite(c, None, e, "coach", None)
  \/ \E r \in RequestIds, i \in InviteChoices, p \in OverlapPasswords :
        register_from_invite_begin(r, i, p)
  \/ \E r \in RequestIds : register_from_invite_resume(r)
  \/ \E r \in RequestIds, e \in Emails, p \in OverlapPasswords :
        signup_begin(r, e, p)
  \/ \E r \in RequestIds : signup_resume(r)
  \/ \E r \in RequestIds, e \in Emails, o \in {"missing", "rejected", "ok"} :
        exchange_session_begin(r, e, o)
  \/ \E r \in RequestIds : exchange_session_resume(r)

SpecOverlap == Init /\ [][NextOverlap]_vars

Spec == Init /\ [][Next]_vars

(***************************************************************************)
(* Properties.  A request is a step from a state without a response in      *)
(* flight to a state whose resp names the route.                            *)
(***************************************************************************)
Request(op) == resp = NoResp /\ resp'.op = op

\* Nothing is created: no user, session, coach profile or organization.
CreatesNothing ==
  /\ users' = users
  /\ user_sessions' = user_sessions
  /\ coaches' = coaches
  /\ organizations' = organizations

\* C1, as stated: once a registration path has consumed invite I, every later
\* POST /auth/register-invite with I is rejected with 400 and creates no user
\* or session, and GET /invites/validate/I answers valid = false.
C1_ConsumedInviteRejected400 ==
  [][ /\ (Request("register-invite") /\ resp'.arg \in hist.consumed) =>
           /\ resp'.status = 400
           /\ users' = users
           /\ user_sessions' = user_sessions
      /\ (Request("validate-invite") /\ resp'.arg \in hist.consumed) =>
           resp'.user = 0 ]_vars

\* C1, amended: a later POST /auth/register-invite with a consumed invite I is
\* rejected with 400 while the invite document is stored and with 404 once it
\* has been deleted; it creates no user or session, and GET
\* /invites/validate/I answers valid = false.
C1_ConsumedInviteRejected ==
  [][ /\ (Request("register-invite") /\ resp'.arg \in hist.consumed) =>
           /\ resp'.status = IF resp'.arg \in DOMAIN invites THEN 400 ELSE 404
           /\ users' = users
           /\ user_sessions' = user_sessions
      /\ (Request("validate-invite") /\ resp'.arg \in hist.consumed) =>
           resp'.user = 0 ]_vars

\* A consumed invite, still stored, has been presented to register-invite
\* and refused.
C1_Witness ==
  /\ resp.op = "register-invite"
  /\ resp.arg \in hist.consumed
  /\ resp.arg \in DOMAIN invites
  /\ resp.status = 400

\* An unused invite addressed to this e-mail address (invites keep the address
\* in lower case).
HasUnusedInvite(email) ==
  \E i \in DOMAIN invites : invites[i].email = Lower(email) /\ ~invites[i].used

HasAccount(email) ==
  \E u \in DOMAIN users : Lower(users[u].email) = Lower(email)

\* C2: once a user exists, a signup (or a Google exchange for an address
\* without account) for an address that has no unused invite is refused and
\* creates no user, session, coach profile or organization.
C2_InviteOnly ==
  [][ ( /\ Request("signup") \/ Request("session")
        /\ DOMAIN users # {}
        /\ ~HasUnusedInvite(resp'.arg)
        /\ ~HasAccount(resp'.arg) ) =>
      ( resp'.status # 200 /\ CreatesNothing /\ invites' = invites ) ]_vars

\* The conditions under which a token identifies a user: a stored session
\* with this token, whose expires_at is not earlier than now, of a user that
\* exists.
ValidSession(tok) ==
  /\ tok \in DOMAIN user_sessions
  /\ user_sessions[tok].expires_at # NoExpiry
  /\ ~(user_sessions[tok].expires_at < now)
  /\ user_sessions[tok].user_id \in DOMAIN users

\* C3: a request is authenticated as user U only if the token it presents
\* (the cookie, or the Bearer token when there is no cookie) is the token of a
\* stored session of U that has not expired, and U exists; in every other case
\* require_auth answers 401.
C3_AuthenticatedBySession ==
  resp.op = "me" =>
    IF ValidSession(resp.tok)
      THEN resp.status = 200 /\ resp.user = user_sessions[resp.tok].user_id
      ELSE resp.status = 401

RoleOf(tok) == users[user_sessions[tok].user_id].role

CoachDeveloperRoutes ==
  {"create-invite", "delete-invite", "delete-invite-by-email", "list-users",
   "update-role", "link-coach", "delete-user", "list-coaches", "create-coach",
   "delete-coach", "update-organization"}

AdminRoutes ==
  {"admin-create-organization", "admin-create-user", "admin-reset-password",
   "impersonate", "admin-delete-user", "admin-delete-organization"}

\* The answer a guard is specified to give: 401 without a valid session, 403 to
\* a role that is not admitted, 200 (the route runs) otherwise.
ExpectedGuard(tok, admitted) ==
  IF ~ValidSession(tok) THEN 401
  ELSE IF RoleOf(tok) \notin admitted THEN 403
  ELSE 200

\* C4: a route guarded by require_coach_developer answers 401 without a valid
\* session and 403 to a user with role coach, in both cases changing no
\* collection, and admits exactly coach developers and admins; a route
\* guarded by require_admin admits only admins.
C4_RoleGuards ==
  [][ \A op \in CoachDeveloperRoutes \cup AdminRoutes :
        Request(op) =>
          LET tok == resp'.tok
              want == IF op \in AdminRoutes
                        THEN ExpectedGuard(tok, {"admin"})
                        ELSE ExpectedGuard(tok, {"coach_developer", "admin"})
              guard == IF op \in AdminRoutes THEN require_admin(tok)
                                             ELSE require_coach_developer(tok) IN
          /\ guard = want
          /\ want # 200 => (resp'.status = want /\ db' = db) ]_vars

\* The organization of a user: the one its document names, else the one it
\* owns.
UserOrg(u) ==
  IF users[u].organization_id # None THEN users[u].organization_id
  ELSE IF OwnedOrgs(u) # {} THEN CHOOSE o \in OwnedOrgs(u) : TRUE
  ELSE None

\* The organization of a coach profile: the one its document names, else the
\* one of the user that created it.
CoachOrg(c) ==
  IF coaches[c].organization_id # None THEN coaches[c].organization_id
  ELSE IF coaches[c].created_by \in DOMAIN users THEN UserOrg(coaches[c].created_by)
  ELSE None

\* C5: GET /users and GET /coaches return to a coach developer only the users
\* and coaches of the caller's own organization, and GET /coaches/{id} returns
\* a profile only if it belongs to that organization.
C5_OrganizationScoped ==
  ( /\ resp.op \in {"list-users", "list-coaches", "get-coach"}
    /\ resp.status = 200
    /\ ValidSession(resp.tok)
    /\ RoleOf(resp.tok) = "coach_developer" ) =>
  LET me == user_sessions[resp.tok].user_id IN
  IF resp.op = "list-users"
    THEN \A u \in resp.items : UserOrg(u) = UserOrg(me)
    ELSE \A c \in resp.items : CoachOrg(c) = UserOrg(me)

\* C6: a session token returned by signup, login, the Google exchange,
\* register-invite or impersonation authenticates a request made with it as
\* the user the response names (here: when the response is sent, before any
\* time has passed and before any logout, reset or deletion).
C6_ReturnedTokenAuthenticates ==
  ( /\ resp.op \in {"signup", "login", "session", "register-invite", "impersonate"}
    /\ resp.status = 200 ) =>
  get_current_user(resp.token) = [kind |-> "user", id |-> resp.user]

\* C7: after POST /auth/logout the session token of that request no longer
\* authenticates a request, as cookie or as Bearer header.
C7_LogoutEndsSession ==
  (resp.op = "logout" /\ resp.tok # None) =>
    \A cb \in Creds :
      SessionToken(cb[1], cb[2]) = resp.tok =>
        get_current_user(SessionToken(cb[1], cb[2])) = NoUser

\* C8: signup, register-invite, reset-password and change-password store no
\* password that is shorter than 8 characters or has no letter or no digit: a
\* request with such a password is refused and changes no user.
C8_WeakPasswordRefused ==
  [][ \A p \in Passwords :
        ~validate_password(p) =>
          ( ( \/ \E e \in Emails, club \in BOOLEAN : signup(e, p, club)
              \/ \E i \in InviteChoices : register_from_invite(i, p)
              \/ \E t \in ResetChoices : reset_password(t, p)
              \/ \E cb \in Creds, q \in Passwords :
                    change_password(cb[1], cb[2], q, p) )
            => (resp'.status # 200 /\ users' = users) ) ]_vars

\* A reset token that forgot-password issued, no more than an hour ago, and
\* that has not been used.
Usable(token) ==
  /\ token \in DOMAIN hist.reset_issued
  /\ now <= hist.reset_issued[token] + RESET_TTL
  /\ token \notin hist.reset_used

\* C9: a reset token changes a password only if forgot-password issued it, it
\* is presented no more than one hour after issue, and it has not been used;
\* every other reset-password or verify-reset-token request is refused (400 /
\* valid = false) and leaves all passwords unchanged.
C9_ResetTokenGuard ==
  [][ /\ Request("reset-password") =>
           /\ users' # users => Usable(resp'.arg)
           /\ ~Usable(resp'.arg) => (resp'.status = 400 /\ users' = users)
      /\ Request("verify-reset-token") =>
           /\ users' = users
           /\ ~Usable(resp'.arg) => resp'.user = 0 ]_vars

\* A reset token has set a password exactly one hour after it was issued.
C9_Witness ==
  /\ resp.op = "reset-password"
  /\ resp.status = 200
  /\ resp.arg \in hist.reset_used
  /\ now = hist.reset_issued[resp.arg] + RESET_TTL

\* C10: POST /admin/impersonate/{user_id} creates a session only when the
\* requester is an admin and the target exists and is not an admin; otherwise
\* it answers 401 or 403 (requester), 404 (no such target) or 403 (admin
\* target) and creates no session.
C10_ImpersonationGuard ==
  [][ Request("impersonate") =>
        LET tok == resp'.tok
            target == resp'.arg IN
        IF ~ValidSession(tok)
          THEN resp'.status = 401 /\ user_sessions' = user_sessions
        ELSE IF RoleOf(tok) # "admin"
          THEN resp'.status = 403 /\ user_sessions' = user_sessions
        ELSE IF target \notin DOMAIN users
          THEN resp'.status = 404 /\ user_sessions' = user_sessions
        ELSE IF users[target].role = "admin"
          THEN resp'.status = 403 /\ user_sessions' = user_sessions
        ELSE resp'.status = 200 /\ user_sessions' # user_sessions ]_vars

\* C11: for every impersonation session created by POST /admin/impersonate,
\* as long as the admin session that created it is still stored and unexpired,
\* POST /admin/exit-impersonation presented with the impersonation token
\* answers 200, deletes the impersonation session (its token no longer
\* authenticates) and hands back the token of the admin session that created
\* it.
C11_ExitRestoresAdmin ==
  [][ ( /\ Request("exit-impersonation")
        /\ resp'.tok \in DOMAIN user_sessions
        /\ resp'.tok \in DOMAIN hist.impersonator
        /\ ValidSession(hist.impersonator[resp'.tok]) ) =>
      ( /\ resp'.status = 200
        /\ resp'.tok \notin DOMAIN user_sessions'
        /\ resp'.token = hist.impersonator[resp'.tok] ) ]_vars

\* The user a request is made by: the user of the valid session whose token
\* the request presents.
Caller(tok) == user_sessions[tok].user_id

ObservationRoutes == {"get-observation", "update-observation", "delete-observation"}

C13_CoachFetchesOwnSessions ==
  [][ ( /\ Request("get-observation")
        /\ ValidSession(resp'.tok)
        /\ RoleOf(resp'.tok) = "coach" ) =>
      LET me == Caller(resp'.tok)
          s == resp'.arg IN
      IF /\ s \in DOMAIN observation_sessions
         /\ users[me].linked_coach_id # None
         /\ observation_sessions[s].coach_id = users[me].linked_coach_id
        THEN resp'.status = 200
        ELSE resp'.status = 404 ]_vars

\* The conditions under which C14 lets POST /coach/reflections store: the
\* caller has role coach, the session is in the sessions collection with the
\* coach_id that the caller is linked to (users', the link as require_coach
\* leaves it), and that pair has no reflection yet.
MayReflect(tok, s) ==
  /\ ValidSession(tok)
  /\ RoleOf(tok) = "coach"
  /\ s \in DOMAIN sessions
  /\ sessions[s].coach_id = users'[Caller(tok)].linked_coach_id
  /\ \A r \in DOMAIN reflections :
       ~(reflections[r].session_id = s /\ reflections[r].coach_id = sessions[s].coach_id)

AtMostOneReflection(rs) ==
  \A r1, r2 \in DOMAIN rs :
    (rs[r1].session_id = rs[r2].session_id /\ rs[r1].coach_id = rs[r2].coach_id)
      => r1 = r2

\* C14, as stated: POST /coach/reflections stores a reflection only if the
\* caller has role coach, the session exists in the sessions collection with
\* coach_id equal to the caller's linked_coach_id, and the (session_id,
\* coach_id) pair has no reflection yet; otherwise it answers 403, 404 or 400
\* and stores nothing (no collection changes), so at most one reflection ever
\* exists per pair.
C14_ReflectionGuardStoresNothing ==
  [][ Request("create-reflection") =>
        LET tok == resp'.tok
            s == resp'.arg IN
        /\ reflections' # reflections => MayReflect(tok, s)
        /\ (ValidSession(tok) /\ ~MayReflect(tok, s)) =>
             (resp'.status \in {403, 404, 400} /\ db' = db)
        /\ AtMostOneReflection(reflections') ]_vars

\* C14, amended: as above, but a refused request stores no reflection; the
\* only other write is the one of require_coach, which links a coach without
\* linked_coach_id to a coach profile (a new one if none has the e-mail
\* address) before the request is refused or served.
C14_ReflectionGuard ==
  [][ Request("create-reflection") =>
        LET tok == resp'.tok
            s == resp'.arg IN
        /\ reflections' # reflections => MayReflect(tok, s)
        /\ (ValidSession(tok) /\ ~MayReflect(tok, s)) =>
             (resp'.status \in {403, 404, 400} /\ reflections' = reflections)
        /\ AtMostOneReflection(reflections')
        /\ UNCHANGED << observation_sessions, sessions, reflection_templates,
                        user_sessions, invites, organizations, password_resets >>
        /\ (users' # users \/ coaches' # coaches) =>
             /\ ValidSession(tok) /\ RoleOf(tok) = "coach"
             /\ users[Caller(tok)].linked_coach_id = None
             /\ users' = [users EXCEPT ![Caller(tok)].linked_coach_id =
                                          users'[Caller(tok)].linked_coach_id]
             /\ \A c \in DOMAIN coaches : coaches'[c] = coaches[c] ]_vars

\* A coach whose reflection on a session is stored has sent a second one for
\* the same session and was answered 400.
C14_Witness ==
  /\ resp.op = "create-reflection"
  /\ resp.status = 400
  /\ ValidSession(resp.tok)
  /\ RoleOf(resp.tok) = "coach"
  /\ \E r \in DOMAIN reflections :
       /\ reflections[r].session_id = resp.arg
       /\ reflections[r].coach_id = users[Caller(resp.tok)].linked_coach_id

\* The users that can make the template requests that write.
Editors == {u \in DOMAIN users : users[u].role \in {"coach_developer", "admin"}}

\* C15: after any sequence of create, update, set-default and unset-default
\* requests made by one coach developer or admin (the only one there is), at
\* most one of the templates that GET /reflection-templates returns to that
\* user for a given target_role has is_default = true.
C15_OneDefaultPerRole ==
  ( /\ resp.op = "list-templates"
    /\ resp.status = 200
    /\ Editors = {Caller(resp.tok)} ) =>
  \A r \in TargetRoles :
    Cardinality({t \in resp.items :
                   /\ reflection_templates[t].target_role = r
                   /\ reflection_templates[t].is_default}) <= 1

TemplateWrites == {"update-template", "delete-template", "set-default", "unset-default"}

\* C16: a request addressed to a reflection template by a user other than its
\* created_by leaves the template unchanged, and is rejected with 403
\* whenever it would modify a field of the template or delete it.
C16_OnlyCreatorChanges ==
  [][ \A op \in TemplateWrites :
        ( /\ Request(op)
          /\ ValidSession(resp'.tok)
          /\ RoleOf(resp'.tok) \in {"coach_developer", "admin"}
          /\ resp'.arg \in DOMAIN reflection_templates
          /\ reflection_templates[resp'.arg].created_by # Caller(resp'.tok) ) =>
        LET t == resp'.arg IN
        /\ t \in DOMAIN reflection_templates'
        /\ reflection_templates'[t] = reflection_templates[t]
        /\ \/ resp'.status = 403
           \/ op = "set-default" /\ reflection_templates[t].is_default
           \/ op = "unset-default" /\ ~reflection_templates[t].is_default ]_vars

\* C17: after POST /admin/users has returned temporary_password for a new
\* user, or POST /admin/users/{user_id}/reset-password has succeeded with
\* new_password, POST /auth/login with the user's e-mail address and that
\* password answers 200 with the token of a stored session.  (The key
\* "password" of a user document is written by these two routes only.)
C17_AdminPasswordUsable ==
  [][ \A u \in DOMAIN users, p \in Passwords \cup {TEMP_PASSWORD} :
        ( /\ users[u].password = hash_password(p)
          /\ login(users[u].email, p) ) =>
        ( /\ resp'.status = 200
          /\ resp'.user = u
          /\ resp'.token \in DOMAIN user_sessions' ) ]_vars

\* C18: in every stored state and for every request (cookie, Bearer header),
\* dependencies.get_current_user returns the same user, or no user, as
\* server.get_current_user; so a token that login has issued passes
\* dependencies.require_auth exactly when it passes require_auth of server.py.
C18_SameUserAsServer ==
  started =>
    \A cb \in Creds :
      /\ dependencies_get_current_user(cb[1])
           = get_current_user(SessionToken(cb[1], cb[2]))
      /\ dependencies_require_auth(cb[1])
           = require_auth(SessionToken(cb[1], cb[2]))

IssuedTokens == 1..(nextId.token - 1)

\* C19: when POST /auth/reset-password answers 200 for user U, no session of
\* U that was stored before the call is stored after it; a session token,
\* once it is no longer stored, is never stored again, and a request that
\* presents it is answered 401: every token issued to U earlier is answered
\* 401 from then on.
C19_ResetEndsSessions ==
  [][ /\ (Request("reset-password") /\ resp'.status = 200) =>
           \A t \in DOMAIN user_sessions :
             user_sessions[t].user_id = resp'.user =>
               t \notin DOMAIN user_sessions'
      /\ \A t \in IssuedTokens :
           t \notin DOMAIN user_sessions =>
             /\ t \notin DOMAIN user_sessions'
             /\ require_auth(t) = 401
             /\ (require_auth(t))' = 401 ]_vars

\* A password reset has succeeded for a user who had logged in before: the
\* one session token issued so far is no longer stored.
C19_Witness ==
  /\ resp.op = "reset-password"
  /\ resp.status = 200
  /\ hist.reset_used = {resp.arg}
  /\ nextId.token = 2
  /\ user_sessions = << >>

\* The deployment is running and nobody has registered yet: every user
\* identifier issued so far belongs to the account that the startup hook
\* keeps.
NobodyRegistered ==
  /\ started
  /\ \A u \in 1..(nextId.user - 1) :
       u \in DOMAIN users /\ users[u].email = ADMIN_EMAIL

\* C20: on a running deployment in which nobody has registered yet, the first
\* person to sign up without an invite, by POST /auth/signup (with a valid
\* e-mail address and password) or by the Google exchange POST /auth/session,
\* is accepted and gets role coach_developer, and GET /users/check-first
\* reports is_first = true until then.
C20_FirstUserCoachDeveloper ==
  [][ /\ \A e \in Emails, p \in Passwords, club \in BOOLEAN :
           ( /\ NobodyRegistered
             /\ validate_email(e) /\ validate_password(p)
             /\ ~HasAccount(e) /\ ~HasUnusedInvite(e)
             /\ signup(e, p, club) ) =>
           ( /\ resp'.status = 200
             /\ users'[resp'.user].role = "coach_developer" )
      /\ \A e \in Emails :
           ( /\ NobodyRegistered
             /\ ~HasAccount(e) /\ ~HasUnusedInvite(e)
             /\ exchange_session(e, "ok") ) =>
           ( /\ resp'.status = 200
             /\ users'[resp'.user].role = "coach_developer" )
      /\ (NobodyRegistered /\ Request("check-first")) => resp'.user = 1 ]_vars

\* C21: after DELETE /users/{user_id} or DELETE /admin/users/{user_id}
\* succeeds for a user whose linked_coach_id is C, no coach profile with id C
\* exists any more.
C21_DeleteUserDeletesCoach ==
  [][ ( /\ Request("delete-user") \/ Request("admin-delete-user")
        /\ resp'.status = 200
        /\ resp'.arg \in DOMAIN users
        /\ users[resp'.arg].linked_coach_id # None ) =>
      users[resp'.arg].linked_coach_id \notin DOMAIN coaches' ]_vars

\* C24: in every reachable state, a user's non-null linked_coach_id names an
\* existing coach profile, and a coach profile's non-null user_id names an
\* existing user whose linked_coach_id is that profile's id.
C24_LinksConsistent ==
  /\ \A u \in DOMAIN users :
       users[u].linked_coach_id # None =>
         users[u].linked_coach_id \in DOMAIN coaches
  /\ \A c \in DOMAIN coaches :
       coaches[c].user_id # None =>
         /\ coaches[c].user_id \in DOMAIN users
         /\ users[coaches[c].user_id].linked_coach_id = c

\* The error text contains a permanent-error marker, as it stands.
HasMarker(e) ==
  \E k \in 1..Len(permanent_errors) : Contains(permanent_errors[k], ErrorCatalog[e])

MailBusy == mail.pc \in {"send", "sleep"}
MailDone == mail.pc \in {"returned", "raised"}

\* What a call of send_email_with_retry has done so far is what C22 allows.
RetryDiscipline ==
  LET n == Len(mail.sends) IN
  /\ n <= mail.max_retries
  \* it returns at the first successful attempt
  /\ \A i \in 1..n :
       mail.sends[i] = NoError => i = n /\ mail.pc = "returned"
  /\ mail.pc = "returned" => n >= 1 /\ mail.sends[n] = NoError
  \* an error with a marker is raised at once: no attempt and no sleep after it
  /\ \A i \in 1..n :
       (mail.sends[i] # NoError /\ HasMarker(mail.sends[i])) =>
         /\ i = n
         /\ mail.pc = "raised" /\ mail.raised = mail.sends[i]
         /\ Len(mail.sleeps) = i - 1
  \* the k-th sleep follows attempt k, lasts 2^k seconds, and attempt k + 1
  \* follows it: there is none after the last attempt
  /\ \A k \in 1..Len(mail.sleeps) :
       /\ mail.sleeps[k] = [after |-> k, secs |-> 2 ^ k]
       /\ k <= n /\ k < mail.max_retries
  /\ mail.pc = "sleep" => Len(mail.sleeps) = n
  /\ mail.pc = "send" => Len(mail.sleeps) = n
  /\ MailDone => Len(mail.sleeps) = n - 1
  \* once max_retries attempts have failed it raises the last error
  /\ (n = mail.max_retries /\ n >= 1 /\ mail.sends[n] # NoError) =>
       mail.pc = "raised" /\ mail.raised = mail.sends[n]
  /\ mail.pc = "raised" => n >= 1 /\ mail.raised = mail.sends[n]

\* C22: send_email_with_retry always terminates after at most max_retries
\* send attempts: it returns at the first successful attempt, re-raises at
\* once (no further attempt, no sleep) when the error text contains a
\* permanent-error marker, sleeps 2^attempt seconds only between two attempts
\* and never after the last one, and raises the last error once max_retries
\* attempts have failed.
C22_RetryTerminates ==
  /\ []RetryDiscipline
  /\ MailBusy ~> MailDone

\* All max_retries attempts have failed with errors that are retried: the
\* call slept between them, not after the last, and has raised.
C22_Witness ==
  /\ mail.pc = "raised"
  /\ mail.max_retries >= 3
  /\ Len(mail.sends) = mail.max_retries
  /\ \A i \in 1..Len(mail.sends) : ~is_permanent(ErrorCatalog[mail.sends[i]])
  /\ Len(mail.sleeps) = mail.max_retries - 1

\* Request r has consumed invite i and created a user account.
CreatedAccount(r, i) ==
  /\ inflight[r].invite = i
  /\ inflight[r].user_id # None

\* C23: if two registration requests that consume the same invite (any mix of
\* register-invite, signup and Google session exchange) run concurrently with
\* their database reads and writes interleaved, at most one of them creates a
\* user account.
C23_SingleUseUnderOverlap ==
  \A r1, r2 \in RequestIds :
    \A i \in DOMAIN invites :
      (CreatedAccount(r1, i) /\ CreatedAccount(r2, i)) => r1 = r2

====
